---- MODULE Spec2Model ----
(***************************************************************************)
(* HypeSwipe: the authenticated Pear API client (lib/pear-api.ts), the     *)
(* shared session store (store/userStore.ts) and the approval state        *)
(* derived from it.                                                        *)
(*                                                                         *)
(* A call of pearApiRequest is a record of the function `call`.  Calls 1   *)
(* and 2 are requests made by the application; call RefreshCallOf(p) is    *)
(* the nested pearApiRequest('/auth/refresh', .., false) that              *)
(* refreshPearToken makes on behalf of request p.  One action is one run   *)
(* of the JavaScript code between two suspension points (await).           *)
(*                                                                         *)
(* A response with an OK status is taken to carry a well-formed JSON body. *)
(***************************************************************************)
EXTENDS Integers, Sequences, FiniteSets, TLC

\* ---------------------------------------------------------------- constants
MAX_RETRIES == 3
RETRY_DELAY_BASE == 1000

\* Tokens are numbered by the generation in which the auth server issued
\* them; NoToken is null.  The server issues generations 2..MaxGen.
NoToken == 0
MaxGen == 3

Requests == {1, 2}
RefreshCallOf(p) == p + 2
Calls == Requests \cup {RefreshCallOf(p) : p \in Requests}

\* HTTP statuses that are neither OK nor 401
ErrorStatuses == {400, 404, 429, 500}

VARIABLES
  pearAccessToken,      \* store: access token or NoToken
  pearRefreshToken,     \* store: refresh token or NoToken
  builderCodeApproved,  \* store: cached builder-fee approval
  agentWalletApproved,  \* store: cached agent-wallet approval
  isWalletConnected,    \* wagmi useAccount().isConnected
  authStatus,           \* value of the last getAuthStatus(isConnected) render
  nextGen,              \* auth server: next token generation to issue
  call,                 \* the pearApiRequest calls
  maxBuilderFee,        \* Hyperliquid: max builder fee approved by the user
  extraAgents,          \* Hyperliquid: the user's approved agents
  now,                  \* Date.now()
  flow,                 \* the approval-flow operation in progress
  quote,                \* the getBtcToEvmQuoteSmart call
  push,                 \* how the script was assembled
  script,               \* the output script given to extractOpReturnMemo
  memo,                 \* what extractOpReturnMemo returned
  psbt,                 \* the decodePsbt call
  approval,             \* one useBuilderApproval instance and its calls
  agentCheck            \* the HyperliquidSDK.isAgentApproved call

\* the calls that share nothing with the rest
aside == <<psbt, approval, agentCheck>>

\* what the Pear API client does not touch
others ==
  <<maxBuilderFee, extraAgents, now, flow, quote, push, script, memo, aside>>

vars == <<pearAccessToken, pearRefreshToken, builderCodeApproved,
          agentWalletApproved, isWalletConnected, authStatus, nextGen, call,
          others>>

store == <<pearAccessToken, pearRefreshToken, builderCodeApproved,
           agentWalletApproved>>

\* ------------------------------------------------------------------- errors
NoError == [name |-> "none", statusCode |-> 0, message |-> ""]
Ok == [name |-> "ok", statusCode |-> 200, message |-> ""]

PearApiException(message, statusCode) ==
  [name |-> "PearApiException", statusCode |-> statusCode, message |-> message]

AuthRequired == PearApiException("Authentication required", 401)
SessionExpired == PearApiException("Session expired. Please reconnect.", 401)
\* the exception built from a non-OK response: the message comes from the body
ResponseError(status) == PearApiException("response", status)
\* fetch rejects (network failure): not a PearApiException
NetworkError == [name |-> "TypeError", statusCode |-> 0, message |-> "fetch failed"]

\* -------------------------------------------------------------------- store
\* faulty variant: the agent-wallet gate is not consulted
getAuthStatus_noAgentGate(connected) ==
  IF ~connected THEN "not_connected"
  ELSE IF pearAccessToken = NoToken THEN "connected"
  ELSE IF ~builderCodeApproved THEN "authenticated"
  ELSE "ready_to_trade"

\* faulty variant: the token is examined before the wallet connection
getAuthStatus_tokenFirst(connected) ==
  IF pearAccessToken = NoToken THEN "connected"
  ELSE IF ~connected THEN "not_connected"
  ELSE IF ~builderCodeApproved THEN "authenticated"
  ELSE IF ~agentWalletApproved THEN "authenticated"
  ELSE "ready_to_trade"

\* getAuthStatus(isWalletConnected) over the current store
getAuthStatus(connected) ==
  IF ~connected THEN "not_connected"
  ELSE IF pearAccessToken = NoToken THEN "connected"
  ELSE IF ~builderCodeApproved THEN "authenticated"
  ELSE IF ~agentWalletApproved THEN "authenticated"
  ELSE "ready_to_trade"

setPearTokens(accessToken, refreshToken) ==
  /\ pearAccessToken' = accessToken
  /\ pearRefreshToken' = refreshToken
  /\ UNCHANGED <<builderCodeApproved, agentWalletApproved>>

resetPearAuth ==
  /\ pearAccessToken' = NoToken
  /\ pearRefreshToken' = NoToken
  /\ builderCodeApproved' = FALSE
  /\ agentWalletApproved' = FALSE

\* ------------------------------------------------------------ pearApiRequest
\* A fresh call record.  arg is the refresh token in the body of a refresh
\* call.  The fields after `body` are history: they record what the call did.
NewCall(requireAuth, arg) ==
  [pc |-> "idle", requireAuth |-> requireAuth, arg |-> arg,
   attempt |-> 0, lastError |-> NoError, outcome |-> NoError,
   sent |-> NoToken,          \* Authorization bearer of the fetch in flight
   body |-> [accessToken |-> NoToken, refreshToken |-> NoToken],
                              \* the tokens of an OK refresh response
   delays |-> <<>>,           \* the backoff sleeps, in ms, in order
   fetches |-> 0,             \* fetch() calls, the re-sent one included
   refreshes |-> 0,           \* refreshPearToken() invocations
   resends |-> 0,             \* re-sent requests after a refresh
   refreshFetches |-> 0,      \* fetch() calls of the settled refresh calls
   refreshed |-> 0,           \* refreshes that stored a new access token
   noTokenAtCall |-> FALSE,   \* requireAuth and no access token at the call
   firstStatus |-> -1,        \* first response: status, 0 = fetch rejected
   resendStatus |-> -1,       \* response to the re-sent request
   expiredBy |-> "none"]      \* which branch raised SessionExpired

\* faulty variant: the backoff delay does not double
Catch_flatDelay(r, error) ==
  LET r1 == [r EXCEPT !.lastError = error] IN
  IF error.name = "PearApiException" /\ error.statusCode # 401
  THEN [r1 EXCEPT !.pc = "done", !.outcome = error]
  ELSE IF r.attempt < MAX_RETRIES - 1
       THEN [r1 EXCEPT !.pc = "sleep",
                       !.delays = Append(@, RETRY_DELAY_BASE)]
       ELSE [r1 EXCEPT !.pc = "done", !.outcome = error]

\* faulty variant: a PearApiException with a non-401 status is retried like the rest
Catch_retryAll(r, error) ==
  LET r1 == [r EXCEPT !.lastError = error] IN
  IF r.attempt < MAX_RETRIES - 1
  THEN [r1 EXCEPT !.pc = "sleep",
                  !.delays = Append(@, RETRY_DELAY_BASE * 2^r.attempt)]
  ELSE [r1 EXCEPT !.pc = "done", !.outcome = error]

\* faulty variant: the loop has no attempt limit
Catch_unbounded(r, error) ==
  LET r1 == [r EXCEPT !.lastError = error] IN
  IF error.name = "PearApiException" /\ error.statusCode # 401
  THEN [r1 EXCEPT !.pc = "done", !.outcome = error]
  ELSE [r1 EXCEPT !.pc = "sleep",
                  !.delays = Append(@, RETRY_DELAY_BASE * 2^r.attempt)]

\* the catch block of the retry loop and the throw after the loop
Catch(r, error) ==
  LET r1 == [r EXCEPT !.lastError = error] IN
  IF error.name = "PearApiException" /\ error.statusCode # 401
  THEN [r1 EXCEPT !.pc = "done", !.outcome = error]
  ELSE IF r.attempt < MAX_RETRIES - 1
       THEN [r1 EXCEPT !.pc = "sleep",
                       !.delays = Append(@, RETRY_DELAY_BASE * 2^r.attempt)]
       ELSE [r1 EXCEPT !.pc = "done", !.outcome = error]

\* the head of the try block, up to the await of fetch
Attempt(r, token) ==
  IF r.requireAuth /\ token = NoToken
  THEN Catch(r, AuthRequired)
  ELSE [r EXCEPT !.pc = "fetch",
                 !.sent = IF r.requireAuth THEN token ELSE NoToken,
                 !.fetches = @ + 1]

\* faulty variant: the re-sent request keeps the Authorization header of the first
Resend_staleToken(r, newToken) ==
  [r EXCEPT !.pc = "retryFetch", !.fetches = @ + 1, !.resends = @ + 1]

\* the request is sent again with the new token
Resend(r, newToken) ==
  [r EXCEPT !.pc = "retryFetch", !.sent = newToken,
            !.fetches = @ + 1, !.resends = @ + 1]

\* first response seen by the call
Saw(r, status) ==
  IF r.firstStatus = -1 THEN [r EXCEPT !.firstStatus = status] ELSE r

\* ------------------------------------------------------------- approval flow
\* An address is the sequence of its code points, <<>> when there is none.
NoAddress == <<>>

\* One operation of the approval flow at a time: op is the operation in
\* progress, pc its suspension point, checked the hasCheckedStatusOnLoad ref of
\* the auth page, agent the agentWalletAddress the operation holds, result
\* what the last finished operation returned (checkStatusOnLoad: what its
\* last call, checkAgentWalletStatus, returned), from the approval state the
\* page showed when the operation began.
FlowIdle ==
  [op |-> "none", pc |-> "idle", checked |-> FALSE, agent |-> NoAddress,
   result |-> "none", from |-> "none"]

\* the max fee on chain after approveBuilderFee(builder, "0.01%")
ApprovedFee == 10
\* how far the clock runs; an approval granted in the model expires then
MaxNow == 1

\* the agent wallet address as the Pear API reports it: "0xAb"
PearAgentAddress == <<48, 120, 65, 98>>

\* String.prototype.toLowerCase over the ASCII range
toLowerCase(address) ==
  [i \in 1..Len(address) |->
     IF address[i] >= 65 /\ address[i] <= 90 THEN address[i] + 32
     ELSE address[i]]

\* faulty variant: an agent is still approved at the instant it expires
isAgentApproved_atExpiry(agents, agentAddress, time) ==
  \E agent \in agents :
    /\ toLowerCase(agent.address) = toLowerCase(agentAddress)
    /\ agent.validUntil >= time

\* HyperliquidSDK.isAgentApproved over the agents getExtraAgents returned
isAgentApproved(agents, agentAddress, time) ==
  \E agent \in agents :
    /\ toLowerCase(agent.address) = toLowerCase(agentAddress)
    /\ agent.validUntil > time

setBuilderApproved(approved) ==
  /\ builderCodeApproved' = approved
  /\ UNCHANGED <<pearAccessToken, pearRefreshToken, agentWalletApproved>>

setAgentWalletApproved(approved) ==
  /\ agentWalletApproved' = approved
  /\ UNCHANGED <<pearAccessToken, pearRefreshToken, builderCodeApproved>>

\* an operation returns
Finish(f, result) == [f EXCEPT !.op = "none", !.pc = "idle",
                               !.agent = NoAddress,
                               !.result = result]

\* ---------------------------------------------------------- quote normalizer
HYPERLIQUID_CHAIN_ID == 1337

\* destinations a quote is requested for
ToChainIds == {1, 42161, HYPERLIQUID_CHAIN_ID}

\* the longest route and the largest amount the server answers with
MaxSteps == 2
MaxAmount == 2

\* a step estimate without executionDuration
NoDuration == -1
Durations == {NoDuration, 0, 30}

\* <<toAmount, toAmountMin>> of one object of the server: the minimum is the
\* amount less slippage
AmountPairs ==
  {p \in (1..MaxAmount) \X (1..MaxAmount) : p[2] <= p[1]}

NoTx == [present |-> FALSE, step |-> 0]
TransactionRequest(id) == [present |-> TRUE, step |-> id]

\* the two hops of a route to Hyperliquid
Hops ==
  {[tool |-> "relaydepository",
    action |-> [fromToken |-> "bitcoin", toToken |-> "UBTC", toChainId |-> 999]],
   [tool |-> "hyperliquidProtocol",
    action |-> [fromToken |-> "UBTC", toToken |-> "USDC",
                toChainId |-> HYPERLIQUID_CHAIN_ID]]}

\* LifiRouteStep number id as the server sends it
Step(id, hop, duration, pair, tx) ==
  [id |-> id, type |-> "lifi", tool |-> hop.tool,
   toolDetails |-> [key |-> hop.tool],
   action |-> hop.action,
   estimate |-> [fromAmount |-> "step", toAmount |-> pair[1],
                 toAmountMin |-> pair[2], toAmountUSD |-> "step",
                 executionDuration |-> duration],
   transactionRequest |-> tx]

\* the steps the server may send at position id of a route: any first step;
\* later steps differ in what the normalizer reads of them
StepsAt(id) ==
  {Step(id, hop, duration, pair, tx) :
     hop \in IF id = 1 THEN Hops
             ELSE {h \in Hops : h.tool = "hyperliquidProtocol"},
     duration \in Durations,
     pair \in IF id = 1 THEN {<<1, 1>>, <<MaxAmount, MaxAmount>>}
              ELSE {<<1, 1>>},
     tx \in {NoTx, TransactionRequest(id)}}

RECURSIVE StepListsOf(_)
StepListsOf(n) ==
  IF n = 0 THEN {<<>>}
  ELSE {Append(steps, step) : steps \in StepListsOf(n - 1), step \in StepsAt(n)}

StepLists == UNION {StepListsOf(n) : n \in 0..MaxSteps}

\* LifiRoute: the totals of the whole route and its steps
Routes ==
  {[id |-> "route", toToken |-> "USDC", toChainId |-> HYPERLIQUID_CHAIN_ID,
    toAmount |-> pair[1], toAmountMin |-> pair[2], toAmountUSD |-> "route",
    steps |-> steps] : pair \in AmountPairs, steps \in StepLists}

\* a route the server may list after the first
OtherRoute ==
  [id |-> "other", toToken |-> "USDC", toChainId |-> HYPERLIQUID_CHAIN_ID,
   toAmount |-> 1, toAmountMin |-> 1, toAmountUSD |-> "other",
   steps |-> <<Step(1, CHOOSE hop \in Hops : hop.tool = "relaydepository",
                    30, <<1, 1>>, TransactionRequest(1))>>]

NoStatus == 0
LifiApiError(message, status) ==
  [kind |-> "error", name |-> "LifiApiError", message |-> message,
   status |-> status]
TypeError ==
  [kind |-> "error", name |-> "TypeError",
   message |-> "Cannot read properties of undefined", status |-> NoStatus]

\* what lifiRequest throws: a non-OK response or a failed fetch
RequestFailures ==
  {LifiApiError("Li.Fi API error", status) : status \in {429, 500}}
    \cup {LifiApiError("Network error", NoStatus)}

\* the bodies of /advanced/routes: routes missing, empty, or listed
RoutesResponses ==
  {[kind |-> "ok", hasRoutes |-> FALSE, routes |-> <<>>],
   [kind |-> "ok", hasRoutes |-> TRUE, routes |-> <<>>]}
    \cup {[kind |-> "ok", hasRoutes |-> TRUE, routes |-> <<route>>] :
            route \in Routes}
    \cup {[kind |-> "ok", hasRoutes |-> TRUE, routes |-> <<route, OtherRoute>>] :
            route \in Routes}

\* the bodies of /quote: a LifiQuoteResponse of the server
QuoteResponses ==
  {[kind |-> "quote", id |-> "quote", type |-> "lifi", tool |-> "thorswap",
    toolDetails |-> [key |-> "thorswap"],
    action |-> [fromToken |-> "bitcoin", toToken |-> "USDC",
                toChainId |-> toChainId],
    estimate |-> [fromAmount |-> "quote", toAmount |-> pair[1],
                  toAmountMin |-> pair[2], toAmountUSD |-> "quote",
                  executionDuration |-> duration],
    includedSteps |-> <<>>,
    transactionRequest |-> tx] :
     toChainId \in ToChainIds \ {HYPERLIQUID_CHAIN_ID}, pair \in AmountPairs,
     duration \in Durations \ {NoDuration},
     tx \in {NoTx, TransactionRequest(0)}}

NoRoute ==
  [id |-> "none", toToken |-> "", toChainId |-> 0, toAmount |-> 0,
   toAmountMin |-> 0, toAmountUSD |-> "", steps |-> <<>>]
NoResult == [kind |-> "none"]

\* getBtcToEvmQuoteSmart not called: no request made, nothing returned.
\* routesCalls, stepCalls and quoteCalls count the requests to the three
\* endpoints; received, hasRoutes and routes hold the body of
\* /advanced/routes, stepAnswer whether the step /advanced/stepTransaction
\* returned had a transactionRequest; route is the local variable.
QuoteIdle ==
  [pc |-> "idle", toChainId |-> 0, routesCalls |-> 0, stepCalls |-> 0,
   quoteCalls |-> 0, received |-> FALSE, hasRoutes |-> FALSE, routes |-> <<>>,
   stepAnswer |-> "none", route |-> NoRoute, result |-> NoResult]

RECURSIVE totalDuration(_)
\* route.steps.reduce((sum, s) => sum + (s.estimate?.executionDuration || 0), 0)
totalDuration(steps) ==
  IF steps = <<>> THEN 0
  ELSE LET last == steps[Len(steps)].estimate.executionDuration IN
       totalDuration(SubSeq(steps, 1, Len(steps) - 1))
         + (IF last = NoDuration THEN 0 ELSE last)

\* faulty variant: toAmountMin is left as the first step estimated it
Normalized_stepMin(route, firstStep, stepWithTx) ==
  [kind |-> "quote", id |-> route.id, type |-> "lifi",
   tool |-> firstStep.tool,
   toolDetails |-> firstStep.toolDetails,
   action |-> [firstStep.action EXCEPT !.toToken = route.toToken,
                                       !.toChainId = route.toChainId],
   estimate |-> [firstStep.estimate EXCEPT
                   !.toAmount = route.toAmount,
                   !.toAmountUSD = route.toAmountUSD,
                   !.executionDuration = totalDuration(route.steps)],
   includedSteps |-> [i \in DOMAIN route.steps |->
                        [id |-> route.steps[i].id, type |-> route.steps[i].type,
                         tool |-> route.steps[i].tool,
                         toolDetails |-> route.steps[i].toolDetails,
                         action |-> route.steps[i].action,
                         estimate |-> route.steps[i].estimate]],
   transactionRequest |-> stepWithTx.transactionRequest]

\* faulty variant: executionDuration is left as the first step estimated it
Normalized_stepDuration(route, firstStep, stepWithTx) ==
  [kind |-> "quote", id |-> route.id, type |-> "lifi",
   tool |-> firstStep.tool,
   toolDetails |-> firstStep.toolDetails,
   action |-> [firstStep.action EXCEPT !.toToken = route.toToken,
                                       !.toChainId = route.toChainId],
   estimate |-> [firstStep.estimate EXCEPT
                   !.toAmount = route.toAmount,
                   !.toAmountMin = route.toAmountMin,
                   !.toAmountUSD = route.toAmountUSD,
                   !.executionDuration =
                      IF @ = NoDuration THEN 0 ELSE @],
   includedSteps |-> [i \in DOMAIN route.steps |->
                        [id |-> route.steps[i].id, type |-> route.steps[i].type,
                         tool |-> route.steps[i].tool,
                         toolDetails |-> route.steps[i].toolDetails,
                         action |-> route.steps[i].action,
                         estimate |-> route.steps[i].estimate]],
   transactionRequest |-> stepWithTx.transactionRequest]

\* the object getBtcToEvmQuoteSmart builds from the route
Normalized(route, firstStep, stepWithTx) ==
  [kind |-> "quote", id |-> route.id, type |-> "lifi",
   tool |-> firstStep.tool,
   toolDetails |-> firstStep.toolDetails,
   action |-> [firstStep.action EXCEPT !.toToken = route.toToken,
                                       !.toChainId = route.toChainId],
   estimate |-> [firstStep.estimate EXCEPT
                   !.toAmount = route.toAmount,
                   !.toAmountMin = route.toAmountMin,
                   !.toAmountUSD = route.toAmountUSD,
                   !.executionDuration = totalDuration(route.steps)],
   includedSteps |-> [i \in DOMAIN route.steps |->
                        [id |-> route.steps[i].id, type |-> route.steps[i].type,
                         tool |-> route.steps[i].tool,
                         toolDetails |-> route.steps[i].toolDetails,
                         action |-> route.steps[i].action,
                         estimate |-> route.steps[i].estimate]],
   transactionRequest |-> stepWithTx.transactionRequest]

\* faulty variant: the quote is built whether or not the step has a
\* transactionRequest
Finalize_noCheck(q, stepWithTx) ==
  [q EXCEPT !.pc = "done", !.result =
     Normalized(q.route, q.route.steps[1], stepWithTx)]

\* from the check of stepWithTx.transactionRequest to the return
Finalize(q, stepWithTx) ==
  [q EXCEPT !.pc = "done", !.result =
     IF ~stepWithTx.transactionRequest.present
     THEN LifiApiError("Failed to get transaction request for route", 500)
     ELSE Normalized(q.route, q.route.steps[1], stepWithTx)]

\* faulty variant: only the length of routes is examined, so a body without
\* routes raises a TypeError
AfterRoutes_lengthOnly(q, response) ==
  LET q1 == [q EXCEPT !.received = TRUE, !.hasRoutes = response.hasRoutes,
                      !.routes = response.routes] IN
  IF ~response.hasRoutes
  THEN [q1 EXCEPT !.pc = "done", !.result = TypeError]
  ELSE IF Len(response.routes) = 0
  THEN [q1 EXCEPT !.pc = "done", !.result =
          LifiApiError("No available routes for BTC to Hyperliquid", 404)]
  ELSE LET route == response.routes[1]
           q2 == [q1 EXCEPT !.route = route] IN
       IF route.steps = <<>>
       THEN [q2 EXCEPT !.pc = "done", !.result = TypeError]
       ELSE IF ~route.steps[1].transactionRequest.present
       THEN [q2 EXCEPT !.pc = "stepTransaction", !.stepCalls = @ + 1]
       ELSE Finalize(q2, route.steps[1])

\* getBtcToEvmQuoteSmart after getAdvancedRoutes resolves
AfterRoutes(q, response) ==
  LET q1 == [q EXCEPT !.received = TRUE, !.hasRoutes = response.hasRoutes,
                      !.routes = response.routes] IN
  IF ~response.hasRoutes \/ Len(response.routes) = 0
  THEN [q1 EXCEPT !.pc = "done", !.result =
          LifiApiError("No available routes for BTC to Hyperliquid", 404)]
  ELSE LET route == response.routes[1]
           q2 == [q1 EXCEPT !.route = route] IN
       IF route.steps = <<>>
       THEN [q2 EXCEPT !.pc = "done", !.result = TypeError]
       ELSE IF ~route.steps[1].transactionRequest.present
       THEN [q2 EXCEPT !.pc = "stepTransaction", !.stepCalls = @ + 1]
       ELSE Finalize(q2, route.steps[1])

\* ------------------------------------------------------------- script decoder
\* Bytes are numbers 0..255 and a script is a sequence of bytes. A string is
\* the sequence of its code points.
OP_RETURN == 106
MaxDirectPush == 75
OP_PUSHDATA1 == 76
OP_PUSHDATA2 == 77
OP_PUSHDATA4 == 78

ReplacementCharacter == 65533

\* "0x", " (tracking: ", ")" and "lifi"
Str0x == <<48, 120>>
StrTracking == <<32, 40, 116, 114, 97, 99, 107, 105, 110, 103, 58, 32>>
StrClose == <<41>>
StrLifi == <<108, 105, 102, 105>>

Null == [kind |-> "null", value |-> <<>>]
String(value) == [kind |-> "string", value |-> value]
NotDecoded == [kind |-> "none", value |-> <<>>]

Min(S) == CHOOSE x \in S : \A y \in S : x <= y

\* script[i] with the index of the code, from 0
At(bytes, i) == bytes[i + 1]

\* Uint8Array.prototype.slice(start, end): a negative index counts from the
\* end, and both are clamped to the array
Slice(bytes, start, end) ==
  LET len == Len(bytes)
      from == IF start < 0 THEN (IF len + start < 0 THEN 0 ELSE len + start)
              ELSE (IF start > len THEN len ELSE start)
      to == IF end < 0 THEN (IF len + end < 0 THEN 0 ELSE len + end)
            ELSE (IF end > len THEN len ELSE end) IN
  SubSeq(bytes, from + 1, to)

\* hex.encode: two lower-case digits for each byte
HexDigit(n) == IF n < 10 THEN 48 + n ELSE 87 + n
Hex(bytes) ==
  [i \in 1..(2 * Len(bytes)) |->
     IF i % 2 = 1 THEN HexDigit(bytes[(i + 1) \div 2] \div 16)
     ELSE HexDigit(bytes[i \div 2] % 16)]

\* b0 | (b1 << 8) | (b2 << 16) | (b3 << 24): the operands of | are 32-bit
\* signed integers, so bit 7 of b3 is the sign
Int32LE(b0, b1, b2, b3) ==
  b0 + 256 * b1 + 65536 * b2
    + 16777216 * (IF b3 >= 128 THEN b3 - 256 ELSE b3)

RECURSIVE Utf8Decode(_, _)
\* the UTF-8 decoder of TextDecoder (not fatal) from byte i on: a byte below
\* 0x80 is itself; a well-formed sequence is its code point; an ill-formed
\* one is U+FFFD and decoding resumes at the byte that did not fit
Utf8Decode(d, i) ==
  IF i > Len(d) THEN <<>>
  ELSE
    LET high == {j \in i..Len(d) : d[j] >= 128} IN
    IF high = {} THEN SubSeq(d, i, Len(d))
    ELSE
      LET k == Min(high)
          b == d[k]
          needed == IF b \in 194..223 THEN 1
                    ELSE IF b \in 224..239 THEN 2
                    ELSE IF b \in 240..244 THEN 3
                    ELSE 0
          lower == IF b = 224 THEN 160 ELSE IF b = 240 THEN 144 ELSE 128
          upper == IF b = 237 THEN 159 ELSE IF b = 244 THEN 143 ELSE 191
          fits(t) == /\ k + t <= Len(d)
                     /\ d[k + t] >= (IF t = 1 THEN lower ELSE 128)
                     /\ d[k + t] <= (IF t = 1 THEN upper ELSE 191)
          accepted == Cardinality({t \in 1..needed : \A u \in 1..t : fits(u)})
          codePoint ==
            IF needed = 1 THEN (b - 192) * 64 + (d[k + 1] - 128)
            ELSE IF needed = 2
            THEN (b - 224) * 4096 + (d[k + 1] - 128) * 64 + (d[k + 2] - 128)
            ELSE (b - 240) * 262144 + (d[k + 1] - 128) * 4096
                   + (d[k + 2] - 128) * 64 + (d[k + 3] - 128)
      IN SubSeq(d, i, k - 1) \o
           (IF needed > 0 /\ accepted = needed
            THEN <<codePoint>> \o Utf8Decode(d, k + needed + 1)
            ELSE <<ReplacementCharacter>> \o Utf8Decode(d, k + accepted + 1))

\* new TextDecoder().decode(data): a leading byte order mark is dropped
TextDecode(data) ==
  IF Len(data) >= 3 /\ data[1] = 239 /\ data[2] = 187 /\ data[3] = 191
  THEN Utf8Decode(data, 4)
  ELSE Utf8Decode(data, 1)

\* faulty variant: any script that is not empty counts as OP_RETURN
isOpReturnScript_nonEmpty(bytes) == Len(bytes) > 0

isOpReturnScript(bytes) == Len(bytes) > 0 /\ At(bytes, 0) = OP_RETURN

Printable(byte) ==
  (byte >= 32 /\ byte <= 126) \/ byte = 9 \/ byte = 10 \/ byte = 13

printableCount(data) ==
  Cardinality({i \in 1..Len(data) : Printable(data[i])})

\* faulty variant: a ratio of exactly 0.7 counts as text
isLikelyUtf8Text_atLeast(data) ==
  Len(data) > 0 /\ 10 * printableCount(data) >= 7 * Len(data)

\* data.length > 0 && printableCount / data.length > 0.7; for these lengths
\* the quotient of doubles exceeds the double 0.7 exactly when
\* 10 * printableCount > 7 * data.length
isLikelyUtf8Text(data) ==
  Len(data) > 0 /\ 10 * printableCount(data) > 7 * Len(data)

AlphaNumeric(c) ==
  (c >= 48 /\ c <= 57) \/ (c >= 65 /\ c <= 90) \/ (c >= 97 /\ c <= 122)

\* textAttempt.match(/[=|]?lifi[a-zA-Z0-9]+/): the leftmost match, <<>> for
\* none
lifiMatch(text) ==
  LET found == {i \in 1..(Len(text) - 4) :
                  /\ SubSeq(text, i, i + 3) = StrLifi
                  /\ AlphaNumeric(text[i + 4])} IN
  IF found = {} THEN <<>>
  ELSE
    LET i == Min(found)
        stops == {j \in (i + 4)..Len(text) : ~AlphaNumeric(text[j])}
        last == IF stops = {} THEN Len(text) ELSE Min(stops) - 1
        first == IF i > 1 /\ text[i - 1] \in {61, 124} THEN i - 1 ELSE i
    IN SubSeq(text, first, last)

\* from the classification of the payload to the return
Represent(data) ==
  IF isLikelyUtf8Text(data) THEN String(TextDecode(data))
  ELSE
    LET hexStr == Hex(data)
        match == lifiMatch(TextDecode(data)) IN
    IF match # <<>>
    THEN String(Str0x \o hexStr \o StrTracking \o match \o StrClose)
    ELSE String(Str0x \o hexStr)

\* from "Extract the data" on; offset + dataLength > script.length is
\* evaluated as dataLength > script.length - offset
Extract(bytes, offset, dataLength) ==
  Represent(IF dataLength > Len(bytes) - offset
            THEN Slice(bytes, offset, Len(bytes))
            ELSE Slice(bytes, offset, offset + dataLength))

\* faulty variant: the payload of a PUSHDATA2 is taken to start after one
\* length byte
extractOpReturnMemo_shortPrefix(bytes) ==
  IF ~isOpReturnScript(bytes) THEN Null
  ELSE IF 1 >= Len(bytes) THEN Null
  ELSE
    LET pushOpcode == At(bytes, 1) IN
    IF pushOpcode <= MaxDirectPush THEN Extract(bytes, 2, pushOpcode)
    ELSE IF pushOpcode = OP_PUSHDATA1
    THEN IF 2 >= Len(bytes) THEN Null
         ELSE Extract(bytes, 3, At(bytes, 2))
    ELSE IF pushOpcode = OP_PUSHDATA2
    THEN IF 2 + 1 >= Len(bytes) THEN Null
         ELSE Extract(bytes, 3, At(bytes, 2) + 256 * At(bytes, 3))
    ELSE IF pushOpcode = OP_PUSHDATA4
    THEN IF 2 + 3 >= Len(bytes) THEN Null
         ELSE Extract(bytes, 6, Int32LE(At(bytes, 2), At(bytes, 3),
                                        At(bytes, 4), At(bytes, 5)))
    ELSE String(Str0x \o Hex(Slice(bytes, 1, Len(bytes))))

extractOpReturnMemo(bytes) ==
  IF ~isOpReturnScript(bytes) THEN Null
  ELSE IF 1 >= Len(bytes) THEN Null
  ELSE
    LET pushOpcode == At(bytes, 1) IN
    IF pushOpcode <= MaxDirectPush THEN Extract(bytes, 2, pushOpcode)
    ELSE IF pushOpcode = OP_PUSHDATA1
    THEN IF 2 >= Len(bytes) THEN Null
         ELSE Extract(bytes, 3, At(bytes, 2))
    ELSE IF pushOpcode = OP_PUSHDATA2
    THEN IF 2 + 1 >= Len(bytes) THEN Null
         ELSE Extract(bytes, 4, At(bytes, 2) + 256 * At(bytes, 3))
    ELSE IF pushOpcode = OP_PUSHDATA4
    THEN IF 2 + 3 >= Len(bytes) THEN Null
         ELSE Extract(bytes, 6, Int32LE(At(bytes, 2), At(bytes, 3),
                                        At(bytes, 4), At(bytes, 5)))
    ELSE String(Str0x \o Hex(Slice(bytes, 1, Len(bytes))))

\* -------------------------------------------------------------- the scripts
\* the longest payload enumerated byte by byte
MaxPayload == 2

\* bytes at the edges of the classes the decoder distinguishes
ByteAlphabet == {0, 9, 11, 31, 32, 65, 126, 127, 128, 169, 195, 255}

Rep(n, byte) == [i \in 1..n |-> byte]
Mix(n, k, p, q) == [i \in 1..n |-> IF i <= k THEN p ELSE q]

Classes == {"direct", "pushdata1", "pushdata2", "pushdata4"}

\* the length n as the class writes it, little-endian
LengthBytes(class, n) ==
  CASE class = "direct" -> <<n>>
    [] class = "pushdata1" -> <<n>>
    [] class = "pushdata2" -> <<n % 256, n \div 256>>
    [] OTHER -> <<n % 256, (n \div 256) % 256, n \div 65536, 0>>

Opcode(class) ==
  CASE class = "direct" -> <<>>
    [] class = "pushdata1" -> <<OP_PUSHDATA1>>
    [] class = "pushdata2" -> <<OP_PUSHDATA2>>
    [] OTHER -> <<OP_PUSHDATA4>>

\* a script assembled from a push: class and length bytes of the prefix and the
\* bytes that follow it; class "raw" is a script given byte by byte
Push(class, length, data) == [class |-> class, length |-> length, data |-> data]
NoPush == Push("none", <<>>, <<>>)

ScriptOf(p) ==
  IF p.class = "raw" THEN p.data
  ELSE <<OP_RETURN>> \o Opcode(p.class) \o p.length \o p.data

\* the lengths at the edges of the push classes, each in its class
EdgeLengths ==
  {<<"direct", 0>>, <<"direct", 1>>, <<"direct", 75>>,
   <<"pushdata1", 76>>, <<"pushdata1", 255>>,
   <<"pushdata2", 256>>, <<"pushdata2", 65535>>}

EdgePayloads(n) ==
  {Rep(n, 65), Rep(n, 0), Mix(n, n - 1, 65, 255), Mix(n, n - 1, 0, 255)}

EdgeScripts ==
  UNION {{Push(c[1], LengthBytes(c[1], c[2]), data) :
            data \in EdgePayloads(c[2])} : c \in EdgeLengths}

SmallPayloads == UNION {[1..n -> ByteAlphabet] : n \in 0..MaxPayload}

\* every small payload in every class, the length declared one short, exact
\* or one long
SmallScripts ==
  {Push(class, LengthBytes(class, Len(data) + delta), data) :
     class \in Classes, data \in SmallPayloads, delta \in {0, 1}}
  \cup
  {Push(class, LengthBytes(class, Len(data) - 1), data) :
     class \in Classes, data \in SmallPayloads \ {<<>>}}

\* pushdata4 lengths with the top bits set
WideLengths ==
  {<<255, 255, 255, 255>>, <<249, 255, 255, 255>>, <<0, 0, 0, 128>>,
   <<255, 255, 255, 127>>, <<0, 0, 1, 0>>}

WideScripts ==
  {Push("pushdata4", length, data) :
     length \in WideLengths,
     data \in SmallPayloads \cup {<<65, 66, 67>>, Rep(8, 65), Rep(8, 0)}}

\* payloads of 10 and 20 bytes around 70% printable
RatioScripts ==
  {Push("direct", <<Len(data)>>, data) :
     data \in {Mix(10, k, p, q) : k \in 6..8, p \in {9, 10, 13, 32, 65, 126},
                                  q \in {0, 11, 31, 127, 128}}
        \cup {Mix(20, k, 65, q) : k \in 13..15, q \in {0, 255}}}

\* "=|lifi92c9", "|lifiAB", "lifi9", "lifi", "lifi1" and "=lifi2" among
\* binary bytes; text with a byte order mark, with well-formed and with
\* ill-formed sequences
TextPayloads ==
  {Rep(10, 0) \o <<61, 124, 108, 105, 102, 105, 57, 50, 99, 57>>,
   Rep(10, 0) \o <<124, 108, 105, 102, 105, 65, 66, 0>>,
   Rep(10, 255) \o <<108, 105, 102, 105, 57>>,
   Rep(10, 0) \o <<108, 105, 102, 105, 0>>,
   Rep(10, 0) \o <<108, 105, 102, 105, 49, 255, 61, 108, 105, 102, 105, 50>>,
   <<239, 187, 191>> \o Rep(8, 65),
   Rep(8, 65) \o <<239, 187, 191>>,
   Rep(8, 65) \o <<195, 169>>,
   Rep(8, 65) \o <<226, 130, 172>>,
   Rep(12, 65) \o <<240, 159, 152, 128>>,
   Rep(8, 65) \o <<195>>,
   Rep(8, 65) \o <<237, 160, 128>>,
   Rep(8, 65) \o <<192, 128>>,
   <<48, 120, 52, 49>>}

TextScripts ==
  {Push(class, LengthBytes(class, Len(data)), data) :
     class \in Classes, data \in TextPayloads}

\* scripts that are no data push after OP_RETURN
RawScripts ==
  {Push("raw", <<>>, bytes) :
     bytes \in {<<>>, <<OP_RETURN>>, <<OP_RETURN, OP_PUSHDATA1>>,
                <<OP_RETURN, OP_PUSHDATA2, 5>>,
                <<OP_RETURN, OP_PUSHDATA4, 1, 0, 0>>,
                <<OP_RETURN, 79, 65>>, <<OP_RETURN, 255, 65, 66>>,
                <<0>>, <<81, 1, 65>>, <<1, 106>>, <<118, 169, 20>>}}

\* scripts whose first byte is not OP_RETURN: a push of "ABC" behind another
\* first byte, and OP_RETURN in second place
NotReturnScripts ==
  {Push("raw", <<>>, <<first, 3, 65, 66, 67>>) :
     first \in {0, 3, 105, 107, OP_PUSHDATA1, 255}}
  \cup {Push("raw", <<>>, <<first, OP_RETURN, 1, 65>>) : first \in {0, 1, 107}}

Pushes ==
  EdgeScripts \cup SmallScripts \cup WideScripts \cup RatioScripts
    \cup TextScripts \cup RawScripts \cup NotReturnScripts

\* ------------------------------------------------------ builder approval hook
\* One useBuilderApproval instance: inProgress is approvalInProgress.current,
\* isApproving the React state, rendered the isApproving that the
\* approveBuilder of the last render closed over. The fields of a call after
\* pc are history: what it returned, the getMaxBuilderFee and approveBuilderFee
\* requests it made, what the fee query showed, whether it set the flag and
\* whether another call was in flight when it was made.
ApprovalCalls == {1, 2, 3}

ApprovalCall ==
  [pc |-> "idle", result |-> "none", feeQueries |-> 0, signatures |-> 0,
   seen |-> "none", setFlag |-> FALSE, duringAnother |-> FALSE,
   afterAnother |-> FALSE]

ApprovalIdle ==
  [inProgress |-> FALSE, isApproving |-> FALSE, rendered |-> FALSE,
   calls |-> [c \in ApprovalCalls |-> ApprovalCall]]

\* a call that has set the flag and not yet left
InFlight(a) == {c \in ApprovalCalls : a.calls[c].pc \in {"fee", "sign"}}

\* return, and the finally block when the call had entered the try block
Leave(a, c, result) ==
  [a EXCEPT !.calls[c].pc = "done", !.calls[c].result = result,
            !.inProgress = IF a.calls[c].setFlag THEN FALSE ELSE @,
            !.isApproving = IF a.calls[c].setFlag THEN FALSE ELSE @]

\* ------------------------------------------------------------- agent check
\* one call of HyperliquidSDK.isAgentApproved(user, agentAddress)
AgentCheckIdle == [pc |-> "idle", agentAddress |-> NoAddress, result |-> FALSE]

\* the most entries of the list getExtraAgents returns
MaxAgents == 2

\* "0xAb", "0xAB", "0xab", "0xCd" and "0xa"
AgentAddresses ==
  {PearAgentAddress, <<48, 120, 65, 66>>, <<48, 120, 97, 98>>,
   <<48, 120, 67, 100>>, <<48, 120, 97>>}

\* the entries of the list: expired, expiring at some instant of the clock,
\* or valid beyond it
AgentEntries == [address : AgentAddresses, validUntil : 0..(MaxNow + 1)]

RECURSIVE AgentSetsOf(_)
\* the lists of at most n entries
AgentSetsOf(n) ==
  IF n = 0 THEN {{}}
  ELSE LET smaller == AgentSetsOf(n - 1) IN
       smaller \cup {agents \cup {agent} :
                       agents \in smaller, agent \in AgentEntries}

\* ------------------------------------------------------------- PSBT decoder
\* hex.decode of @scure/base: the value of a hex digit of either case, -1 for
\* any other character
HexValue(c) ==
  IF c >= 48 /\ c <= 57 THEN c - 48
  ELSE IF c >= 65 /\ c <= 70 THEN c - 55
  ELSE IF c >= 97 /\ c <= 102 THEN c - 87
  ELSE 0 - 1

\* hex.decode throws on a string of odd length or with a character that is no
\* hex digit
HexDecodeThrows(str) ==
  Len(str) % 2 = 1 \/ \E i \in 1..Len(str) : HexValue(str[i]) < 0

HexDecode(str) ==
  [i \in 1..(Len(str) \div 2) |->
     16 * HexValue(str[2 * i - 1]) + HexValue(str[2 * i])]

\* output.script and output.amount of a transaction output: either may be
\* undefined
NoScript == [present |-> FALSE, bytes |-> <<>>]
Script(bytes) == [present |-> TRUE, bytes |-> bytes]
NoAmount == [present |-> FALSE, value |-> 0]
Amount(value) == [present |-> TRUE, value |-> value]

\* the most outputs of a transaction and the largest amount of an output
MaxOutputs == 4
MaxSats == 1

\* a pay-to-address script, OP_RETURN with a push of "ABC", a bare OP_RETURN
\* and OP_RETURN with a push of "=|lifi9" among binary bytes
PayScript == <<118, 169, 1, 65, 136, 172>>
MemoScript == <<OP_RETURN, 3, 65, 66, 67>>
BareReturn == <<OP_RETURN>>

\* the outputs a transaction may have at index i; from index 3 on the variety
\* is reduced
OutputsAt(i) ==
  IF i <= 2
  THEN [script : {NoScript, Script(PayScript), Script(MemoScript),
                  Script(BareReturn)},
        amount : {NoAmount} \cup {Amount(v) : v \in 0..MaxSats}]
  ELSE [script : {Script(PayScript), Script(MemoScript)},
        amount : {Amount(MaxSats)}]

\* the output lists of at most n outputs
RECURSIVE OutputListsOf(_)
OutputListsOf(n) ==
  IF n = 0 THEN {<<>>}
  ELSE LET shorter == OutputListsOf(n - 1)
       IN  shorter \cup
           {Append(outputs, output) :
              outputs \in {list \in shorter : Len(list) = n - 1},
              output \in OutputsAt(n - 1)}

\* what Transaction.fromPSBT and tx.toBytes of @scure/btc-signer do with the
\* bytes is not decided here: fromPSBT throws or returns a transaction, and
\* toBytes throws or returns its serialization
Parsed(outputs, threw, bytes) ==
  [threw |-> threw, outputs |-> outputs, bytes |-> bytes]
NotCalled == Parsed(<<>>, "not called", <<>>)
Parses ==
  {Parsed(<<>>, "fromPSBT", <<>>)}
  \cup {Parsed(outputs, threw,
               IF threw = "none" THEN <<2, 0, 0, 0, Len(outputs)>> ELSE <<>>) :
          outputs \in OutputListsOf(MaxOutputs), threw \in {"toBytes", "none"}}

\* the strings given to decodePsbt: "", "7", "zz", "0x70", "70736274f",
\* "70736274ff" and "70736274FF01"
PsbtHexes ==
  {<<>>, <<55>>, <<122, 122>>, <<48, 120, 55, 48>>,
   <<55, 48, 55, 51, 54, 50, 55, 52, 102>>,
   <<55, 48, 55, 51, 54, 50, 55, 52, 102, 102>>,
   <<55, 48, 55, 51, 54, 50, 55, 52, 70, 70, 48, 49>>}

NullAddress == "null"

ParsedPsbtData(kind) ==
  [kind |-> kind, depositAddress |-> NullAddress, depositAmount |-> 0,
   memo |-> Null, refundAddress |-> NullAddress, refundAmount |-> 0,
   outputs |-> <<>>, rawTxHex |-> <<>>]

\* the result of the catch block, and the variables before the loop
EmptyResult == ParsedPsbtData("returned")
\* decodePsbt threw
Thrown == ParsedPsbtData("thrown")
NotParsed == ParsedPsbtData("none")

PsbtIdle ==
  [pc |-> "idle", psbtHex |-> <<>>, library |-> NotCalled,
   result |-> NotParsed]

\* Number(output.amount || 0)
NumberOf(amount) == IF amount.present THEN amount.value ELSE 0

\* faulty variant: the memo is taken from any OP_RETURN output
Assign_anyReturn(acc, i, output) ==
  LET bytes == IF output.script.present THEN output.script.bytes ELSE <<>>
      scriptHex == Hex(bytes)
      isOpReturn == isOpReturnScript(bytes)
      address == NullAddress
      amount == NumberOf(output.amount)
      pushed == [acc EXCEPT !.outputs =
                   Append(@, [index |-> i, address |-> address,
                              amount |-> amount, isOpReturn |-> isOpReturn,
                              script |-> scriptHex])] IN
  IF i = 0
  THEN [pushed EXCEPT !.depositAddress = address, !.depositAmount = amount]
  ELSE IF isOpReturn
  THEN [pushed EXCEPT !.memo = extractOpReturnMemo(bytes)]
  ELSE IF i = 2
  THEN [pushed EXCEPT !.refundAddress = address, !.refundAmount = amount]
  ELSE pushed

\* the body of the loop over the outputs, for output i
Assign(acc, i, output) ==
  LET bytes == IF output.script.present THEN output.script.bytes ELSE <<>>
      scriptHex == Hex(bytes)
      isOpReturn == isOpReturnScript(bytes)
      address == NullAddress
      amount == NumberOf(output.amount)
      pushed == [acc EXCEPT !.outputs =
                   Append(@, [index |-> i, address |-> address,
                              amount |-> amount, isOpReturn |-> isOpReturn,
                              script |-> scriptHex])] IN
  IF i = 0
  THEN [pushed EXCEPT !.depositAddress = address, !.depositAmount = amount]
  ELSE IF i = 1 /\ isOpReturn
  THEN [pushed EXCEPT !.memo = extractOpReturnMemo(bytes)]
  ELSE IF i = 2
  THEN [pushed EXCEPT !.refundAddress = address, !.refundAmount = amount]
  ELSE pushed

RECURSIVE Walk(_, _, _)
\* for (let i = 0; i < tx.outputsLength; i++)
Walk(tx, i, acc) ==
  IF i >= Len(tx.outputs) THEN acc
  ELSE Walk(tx, i + 1, Assign(acc, i, tx.outputs[i + 1]))

\* faulty variant: hex.decode is called outside the try block
decodePsbt_decodeUnguarded(psbtHex, tx) ==
  IF HexDecodeThrows(psbtHex) THEN Thrown
  ELSE IF tx.threw = "fromPSBT" THEN EmptyResult
  ELSE
    LET acc == Walk(tx, 0, EmptyResult) IN
    IF tx.threw = "toBytes" THEN EmptyResult
    ELSE [acc EXCEPT !.rawTxHex = Hex(tx.bytes)]

\* decodePsbt(psbtHex), tx being what the library makes of the bytes
decodePsbt(psbtHex, tx) ==
  IF HexDecodeThrows(psbtHex) THEN EmptyResult
  ELSE IF tx.threw = "fromPSBT" THEN EmptyResult
  ELSE
    LET acc == Walk(tx, 0, EmptyResult) IN
    IF tx.threw = "toBytes" THEN EmptyResult
    ELSE [acc EXCEPT !.rawTxHex = Hex(tx.bytes)]

\* ------------------------------------------------------------------ actions
\* pearApiRequest(endpoint, options, requireAuth) up to its first await
StartCall(requireAuth) ==
  Attempt([NewCall(requireAuth, NoToken) EXCEPT
             !.noTokenAtCall = requireAuth /\ pearAccessToken = NoToken],
          pearAccessToken)

\* the application calls pearApiRequest(endpoint, options, requireAuth)
Call(p, requireAuth) ==
  /\ call[p].pc = "idle"
  /\ call' = [call EXCEPT ![p] = StartCall(requireAuth)]
  /\ UNCHANGED <<store, isWalletConnected, authStatus, nextGen, others>>

\* the backoff timer fires: next iteration of the for loop
Wake(c) ==
  /\ call[c].pc = "sleep"
  /\ call' = [call EXCEPT ![c] =
       Attempt([call[c] EXCEPT !.attempt = @ + 1], pearAccessToken)]
  /\ UNCHANGED <<store, isWalletConnected, authStatus, nextGen, others>>

\* fetch rejects
FetchFails(c) ==
  /\ call[c].pc = "fetch"
  /\ call' = [call EXCEPT ![c] = Catch(Saw(call[c], 0), NetworkError)]
  /\ UNCHANGED <<store, isWalletConnected, authStatus, nextGen, others>>

\* an OK response to a request of the application
RespondOk(p) ==
  /\ p \in Requests
  /\ call[p].pc = "fetch"
  /\ call' = [call EXCEPT ![p] =
       [Saw(call[p], 200) EXCEPT !.pc = "done", !.outcome = Ok]]
  /\ UNCHANGED <<store, isWalletConnected, authStatus, nextGen, others>>

\* an OK response of /auth/refresh: new tokens of generation nextGen; the
\* body may lack the accessToken
RespondRefreshOk(p, withAccess) ==
  /\ p \in Requests
  /\ call[RefreshCallOf(p)].pc = "fetch"
  /\ nextGen <= MaxGen
  /\ nextGen' = nextGen + 1
  /\ call' = [call EXCEPT ![RefreshCallOf(p)] =
       [Saw(call[RefreshCallOf(p)], 200) EXCEPT
          !.pc = "done", !.outcome = Ok,
          !.body = [accessToken |-> IF withAccess THEN nextGen ELSE NoToken,
                    refreshToken |-> nextGen]]]
  /\ UNCHANGED <<store, isWalletConnected, authStatus, others>>

\* a response with a non-OK status other than 401
RespondError(c, status) ==
  /\ call[c].pc = "fetch"
  /\ status \in ErrorStatuses
  /\ call' = [call EXCEPT ![c] = Catch(Saw(call[c], status), ResponseError(status))]
  /\ UNCHANGED <<store, isWalletConnected, authStatus, nextGen, others>>

\* faulty variant: a 401 starts the refresh whether or not the request
\* required authentication
Respond401_anyRequest(c) ==
  /\ call[c].pc = "fetch"
  /\ LET r == Saw(call[c], 401) IN
     IF c \in Requests
     THEN IF pearRefreshToken # NoToken
          THEN /\ call' = [call EXCEPT
                    ![c] = [r EXCEPT !.pc = "awaitRefresh", !.refreshes = @ + 1],
                    ![RefreshCallOf(c)] =
                       Attempt(NewCall(FALSE, pearRefreshToken), pearAccessToken)]
               /\ UNCHANGED store
          ELSE /\ resetPearAuth
               /\ call' = [call EXCEPT ![c] =
                    Catch([r EXCEPT !.expiredBy =
                             IF @ = "none" THEN "noRefreshToken" ELSE @],
                          SessionExpired)]
     ELSE /\ call' = [call EXCEPT ![c] = Catch(r, ResponseError(401))]
          /\ UNCHANGED store
  /\ UNCHANGED <<isWalletConnected, authStatus, nextGen, others>>

\* a 401 response
Respond401(c) ==
  /\ call[c].pc = "fetch"
  /\ LET r == Saw(call[c], 401) IN
     IF r.requireAuth
     THEN IF pearRefreshToken # NoToken
          THEN /\ call' = [call EXCEPT
                    ![c] = [r EXCEPT !.pc = "awaitRefresh", !.refreshes = @ + 1],
                    ![RefreshCallOf(c)] =
                       Attempt(NewCall(FALSE, pearRefreshToken), pearAccessToken)]
               /\ UNCHANGED store
          ELSE /\ resetPearAuth
               /\ call' = [call EXCEPT ![c] =
                    Catch([r EXCEPT !.expiredBy =
                             IF @ = "none" THEN "noRefreshToken" ELSE @],
                          SessionExpired)]
     ELSE /\ call' = [call EXCEPT ![c] = Catch(r, ResponseError(401))]
          /\ UNCHANGED store
  /\ UNCHANGED <<isWalletConnected, authStatus, nextGen, others>>

\* refreshPearToken settles: the lines after `await refreshPearToken(..)`
RefreshReturns(p) ==
  /\ p \in Requests
  /\ call[p].pc = "awaitRefresh"
  /\ call[RefreshCallOf(p)].pc = "done"
  /\ LET n == call[RefreshCallOf(p)]
         r == [call[p] EXCEPT
                 !.refreshFetches = @ + n.fetches,
                 !.refreshed = IF n.outcome = Ok /\ n.body.accessToken # NoToken
                               THEN @ + 1 ELSE @]
         settled == NewCall(FALSE, NoToken) IN
     IF n.outcome = Ok
     THEN /\ setPearTokens(n.body.accessToken, n.body.refreshToken)
          /\ IF n.body.accessToken # NoToken
             THEN call' = [call EXCEPT
                    ![p] = Resend(r, pearAccessToken'),
                    ![RefreshCallOf(p)] = settled]
             ELSE call' = [call EXCEPT
                    ![p] = Catch(r, ResponseError(401)),
                    ![RefreshCallOf(p)] = settled]
     ELSE /\ resetPearAuth
          /\ call' = [call EXCEPT
               ![p] = Catch([r EXCEPT !.expiredBy =
                               IF @ = "none" THEN "refreshFailed" ELSE @],
                            SessionExpired),
               ![RefreshCallOf(p)] = settled]
  /\ UNCHANGED <<isWalletConnected, authStatus, nextGen, others>>

\* the re-sent request settles: status 0 is a rejected fetch
RetryResponds(p, status) ==
  /\ p \in Requests
  /\ call[p].pc = "retryFetch"
  /\ status \in {0, 200, 401} \cup ErrorStatuses
  /\ LET r == [call[p] EXCEPT !.resendStatus = IF @ = -1 THEN status ELSE @] IN
     IF status = 200
     THEN /\ call' = [call EXCEPT ![p] = [r EXCEPT !.pc = "done", !.outcome = Ok]]
          /\ UNCHANGED store
     ELSE /\ resetPearAuth
          /\ call' = [call EXCEPT ![p] =
               Catch([r EXCEPT !.expiredBy =
                        IF @ = "none" THEN "resendFailed" ELSE @],
                     SessionExpired)]
  /\ UNCHANGED <<isWalletConnected, authStatus, nextGen, others>>

\* a component renders getAuthStatus(isConnected)
Render ==
  /\ authStatus' = getAuthStatus(isWalletConnected)
  /\ UNCHANGED <<store, isWalletConnected, nextGen, call, others>>

\* ------------------------------------------------------ approval-flow actions
\* an operation begins
Begin(f, op, pc) ==
  [f EXCEPT !.op = op, !.pc = pc, !.result = "none",
            !.from = getAuthStatus(isWalletConnected)]

chain == <<maxBuilderFee, extraAgents, now>>
outsideFlow ==
  <<isWalletConnected, authStatus, nextGen, quote, push, script, memo, aside>>
IdleCall == NewCall(FALSE, NoToken)

\* the request an operation awaited has returned
Returned == call[1].pc = "done"

\* the auth page is mounted anew: a fresh hasCheckedStatusOnLoad ref
PageLoad ==
  /\ flow.op = "none"
  /\ flow.checked
  /\ flow' = [flow EXCEPT !.checked = FALSE]
  /\ UNCHANGED <<store, call, chain, outsideFlow>>

\* checkStatusOnLoad up to the await of getMaxBuilderFee
CheckStart ==
  /\ flow.op = "none"
  /\ isWalletConnected /\ pearAccessToken # NoToken /\ ~flow.checked
  /\ flow' = [Begin(flow, "check", "fee") EXCEPT !.checked = TRUE]
  /\ UNCHANGED <<store, call, chain, outsideFlow>>

\* faulty variant: a fee of 0 counts as approved
CheckFeeReturns_nonNegative(ok) ==
  /\ flow.op = "check" /\ flow.pc = "fee"
  /\ IF ok THEN setBuilderApproved(maxBuilderFee >= 0) ELSE UNCHANGED store
  /\ call' = [call EXCEPT ![1] = StartCall(TRUE)]
  /\ flow' = [flow EXCEPT !.pc = "wallet"]
  /\ UNCHANGED <<chain, outsideFlow>>

\* checkMaxBuilderFee after getMaxBuilderFee settles, then
\* checkAgentWalletStatus up to the await of getAgentWallet
CheckFeeReturns(ok) ==
  /\ flow.op = "check" /\ flow.pc = "fee"
  /\ IF ok THEN setBuilderApproved(maxBuilderFee > 0) ELSE UNCHANGED store
  /\ call' = [call EXCEPT ![1] = StartCall(TRUE)]
  /\ flow' = [flow EXCEPT !.pc = "wallet"]
  /\ UNCHANGED <<chain, outsideFlow>>

\* checkAgentWalletStatus after getAgentWallet settles
CheckWalletReturns(agentWalletAddress) ==
  /\ flow.op = "check" /\ flow.pc = "wallet" /\ Returned
  /\ flow' = IF call[1].outcome = Ok /\ agentWalletAddress # NoAddress
             THEN [flow EXCEPT !.pc = "agent", !.agent = agentWalletAddress]
             ELSE Finish(flow, "no agent wallet")
  /\ call' = [call EXCEPT ![1] = IdleCall]
  /\ UNCHANGED <<store, chain, outsideFlow>>

\* checkAgentWalletStatus after isAgentApproved settles
CheckAgentReturns(ok) ==
  /\ flow.op = "check" /\ flow.pc = "agent"
  /\ IF ok
     THEN setAgentWalletApproved(isAgentApproved(extraAgents, flow.agent, now))
     ELSE UNCHANGED store
  /\ flow' = Finish(flow,
       IF ~ok THEN "no agent wallet"
       ELSE IF isAgentApproved(extraAgents, flow.agent, now)
       THEN "agent approved" ELSE "agent not approved")
  /\ UNCHANGED <<call, chain, outsideFlow>>

\* the token pair the login endpoint issues
LoginToken == 1

\* usePearLogin.login up to the await of getEip712Message
LoginStart ==
  /\ flow.op = "none"
  /\ IF ~isWalletConnected
     THEN /\ flow' = [flow EXCEPT !.result = "Wallet not connected"]
          /\ UNCHANGED call
     ELSE /\ flow' = Begin(flow, "login", "message")
          /\ call' = [call EXCEPT ![1] = StartCall(FALSE)]
  /\ UNCHANGED <<store, chain, outsideFlow>>

\* getEip712Message settles; the wallet is asked to sign
LoginMessageReturns ==
  /\ flow.op = "login" /\ flow.pc = "message" /\ Returned
  /\ flow' = IF call[1].outcome = Ok
             THEN [flow EXCEPT !.pc = "sign"]
             ELSE Finish(flow, call[1].outcome.message)
  /\ call' = [call EXCEPT ![1] = IdleCall]
  /\ UNCHANGED <<store, chain, outsideFlow>>

\* the signature settles; authenticateWithSignature is sent
LoginSigned(signed) ==
  /\ flow.op = "login" /\ flow.pc = "sign"
  /\ IF signed
     THEN /\ flow' = [flow EXCEPT !.pc = "auth"]
          /\ call' = [call EXCEPT ![1] = StartCall(FALSE)]
     ELSE /\ flow' = Finish(flow, "User rejected")
          /\ UNCHANGED call
  /\ UNCHANGED <<store, chain, outsideFlow>>

\* authenticateWithSignature settles
LoginAuthReturns ==
  /\ flow.op = "login" /\ flow.pc = "auth" /\ Returned
  /\ IF call[1].outcome = Ok
     THEN /\ setPearTokens(LoginToken, LoginToken)
          /\ flow' = Finish(flow, "success")
     ELSE /\ UNCHANGED store
          /\ flow' = Finish(flow, call[1].outcome.message)
  /\ call' = [call EXCEPT ![1] = IdleCall]
  /\ UNCHANGED <<chain, outsideFlow>>

\* the exchange records the approval of an agent, replacing an earlier one
Approve(agents, agentAddress) ==
  {agent \in agents : agent.address # toLowerCase(agentAddress)}
    \cup {[address |-> toLowerCase(agentAddress), validUntil |-> MaxNow]}

\* the chains the wallet may be on
ChainIds == {1, 10, 42161}

\* approveBuilder up to the await of getMaxBuilderFee
BuilderStart(chainId, walletClient) ==
  /\ flow.op = "none"
  /\ flow' =
       IF ~isWalletConnected
       THEN [flow EXCEPT !.result = "Wallet not connected"]
       ELSE IF chainId # 1 /\ chainId # 42161
       THEN [flow EXCEPT !.result = "Wrong network"]
       ELSE IF ~walletClient
       THEN [flow EXCEPT !.result = "Wallet client not ready"]
       ELSE Begin(flow, "builder", "fee")
  /\ UNCHANGED <<store, call, chain, outsideFlow>>

\* faulty variant: the queried fee is stored as the flag, as the status check
\* does, before the signature is requested
BuilderFeeReturns_storesFee(ok) ==
  /\ flow.op = "builder" /\ flow.pc = "fee"
  /\ IF ok
     THEN /\ setBuilderApproved(maxBuilderFee > 0)
          /\ flow' = IF maxBuilderFee > 0 THEN Finish(flow, "success")
                     ELSE [flow EXCEPT !.pc = "sign"]
     ELSE /\ UNCHANGED store
          /\ flow' = Finish(flow, "fetch failed")
  /\ UNCHANGED <<call, chain, outsideFlow>>

\* getMaxBuilderFee settles
BuilderFeeReturns(ok) ==
  /\ flow.op = "builder" /\ flow.pc = "fee"
  /\ IF ok /\ maxBuilderFee > 0
     THEN /\ setBuilderApproved(TRUE)
          /\ flow' = Finish(flow, "success")
     ELSE /\ UNCHANGED store
          /\ flow' = IF ok THEN [flow EXCEPT !.pc = "sign"]
                     ELSE Finish(flow, "fetch failed")
  /\ UNCHANGED <<call, chain, outsideFlow>>

\* approveBuilderFee settles: the exchange applied the approval, answered
\* with status "err", or the user rejected the signature
BuilderSigned(outcome) ==
  /\ flow.op = "builder" /\ flow.pc = "sign"
  /\ outcome \in {"ok", "err", "rejected"}
  /\ IF outcome = "ok"
     THEN /\ maxBuilderFee' = ApprovedFee
          /\ setBuilderApproved(TRUE)
          /\ flow' = Finish(flow, "success")
     ELSE /\ UNCHANGED <<store, maxBuilderFee>>
          /\ flow' = Finish(flow, IF outcome = "err" THEN "Approval failed"
                                  ELSE "User rejected")
  /\ UNCHANGED <<call, extraAgents, now, outsideFlow>>

\* approveAgent up to the await of getAgentWallet
AgentStart(chainId) ==
  /\ flow.op = "none"
  /\ IF ~isWalletConnected
     THEN /\ flow' = [flow EXCEPT !.result = "Wallet not connected"]
          /\ UNCHANGED call
     ELSE IF chainId # 1
     THEN /\ flow' = [flow EXCEPT !.result = "Wrong network"]
          /\ UNCHANGED call
     ELSE /\ flow' = Begin(flow, "agent", "wallet")
          /\ call' = [call EXCEPT ![1] = StartCall(TRUE)]
  /\ UNCHANGED <<store, chain, outsideFlow>>

\* getAgentWallet settles: isAgentApproved or createAgentWallet is awaited
AgentWalletReturns(agentWalletAddress) ==
  /\ flow.op = "agent" /\ flow.pc = "wallet" /\ Returned
  /\ IF call[1].outcome # Ok
     THEN /\ flow' = Finish(flow, call[1].outcome.message)
          /\ call' = [call EXCEPT ![1] = IdleCall]
     ELSE IF agentWalletAddress # NoAddress
     THEN /\ flow' = [flow EXCEPT !.pc = "approved", !.agent = agentWalletAddress]
          /\ call' = [call EXCEPT ![1] = IdleCall]
     ELSE /\ flow' = [flow EXCEPT !.pc = "create"]
          /\ call' = [call EXCEPT ![1] = StartCall(TRUE)]
  /\ UNCHANGED <<store, chain, outsideFlow>>

\* isAgentApproved settles
AgentApprovedReturns(ok) ==
  /\ flow.op = "agent" /\ flow.pc = "approved"
  /\ IF ok /\ isAgentApproved(extraAgents, flow.agent, now)
     THEN /\ setAgentWalletApproved(TRUE)
          /\ flow' = Finish(flow, "success")
     ELSE /\ UNCHANGED store
          /\ flow' = IF ok THEN [flow EXCEPT !.pc = "sign"]
                     ELSE Finish(flow, "fetch failed")
  /\ UNCHANGED <<call, chain, outsideFlow>>

\* createAgentWallet settles
AgentCreateReturns(agentWalletAddress) ==
  /\ flow.op = "agent" /\ flow.pc = "create" /\ Returned
  /\ flow' = IF call[1].outcome # Ok
             THEN Finish(flow, call[1].outcome.message)
             ELSE IF agentWalletAddress = NoAddress
             THEN Finish(flow, "Failed to create agent wallet")
             ELSE [flow EXCEPT !.pc = "sign", !.agent = agentWalletAddress]
  /\ call' = [call EXCEPT ![1] = IdleCall]
  /\ UNCHANGED <<store, chain, outsideFlow>>

\* signTypedDataAsync settles; the approval is posted to the exchange
AgentSigned(signed) ==
  /\ flow.op = "agent" /\ flow.pc = "sign"
  /\ flow' = IF signed THEN [flow EXCEPT !.pc = "exchange"]
             ELSE Finish(flow, "User rejected")
  /\ UNCHANGED <<store, call, chain, outsideFlow>>

\* the exchange answers: with a non-OK response, or with an OK response
\* after applying the approval or without applying it (only response.ok is
\* examined, not the status in the body)
AgentExchangeReturns(outcome) ==
  /\ flow.op = "agent" /\ flow.pc = "exchange"
  /\ outcome \in {"applied", "notApplied", "httpError"}
  /\ extraAgents' =
       IF outcome = "applied"
       THEN Approve(extraAgents, flow.agent)
       ELSE extraAgents
  /\ IF outcome = "httpError"
     THEN /\ UNCHANGED store
          /\ flow' = Finish(flow, "Approval failed")
     ELSE /\ setAgentWalletApproved(TRUE)
          /\ flow' = Finish(flow, "success")
  /\ UNCHANGED <<call, maxBuilderFee, now, outsideFlow>>

\* the user approves the builder fee in another client
OutOfBandBuilderApproval ==
  /\ maxBuilderFee = 0
  /\ maxBuilderFee' = ApprovedFee
  /\ UNCHANGED <<store, call, extraAgents, now, flow, outsideFlow>>

\* the user approves the agent wallet in another client
OutOfBandAgentApproval ==
  /\ ~isAgentApproved(extraAgents, PearAgentAddress, now)
  /\ extraAgents' = Approve(extraAgents, PearAgentAddress)
  /\ UNCHANGED <<store, call, maxBuilderFee, now, flow, outsideFlow>>

\* time passes
Tick ==
  /\ now < MaxNow
  /\ now' = now + 1
  /\ UNCHANGED <<store, call, maxBuilderFee, extraAgents, flow, outsideFlow>>

\* ------------------------------------------------------------- quote actions
notQuote ==
  <<store, isWalletConnected, authStatus, nextGen, call, maxBuilderFee,
    extraAgents, now, flow, push, script, memo, aside>>

\* faulty variant: every destination goes through /advanced/routes
GetQuote_routesAlways(toChainId) ==
  /\ quote.pc = "idle"
  /\ quote' = [quote EXCEPT !.pc = "routes", !.toChainId = toChainId,
                            !.routesCalls = @ + 1]
  /\ UNCHANGED notQuote

\* getBtcToEvmQuoteSmart(params) up to its await
GetQuote(toChainId) ==
  /\ quote.pc = "idle"
  /\ quote' =
       IF toChainId = HYPERLIQUID_CHAIN_ID
       THEN [quote EXCEPT !.pc = "routes", !.toChainId = toChainId,
                          !.routesCalls = @ + 1]
       ELSE [quote EXCEPT !.pc = "quote", !.toChainId = toChainId,
                          !.quoteCalls = @ + 1]
  /\ UNCHANGED notQuote

\* getAdvancedRoutes resolves
RoutesReturns(response) ==
  /\ quote.pc = "routes"
  /\ quote' = AfterRoutes(quote, response)
  /\ UNCHANGED notQuote

\* getStepTransaction(firstStep) resolves with the step the server returns
StepTransactionReturns(tx) ==
  /\ quote.pc = "stepTransaction"
  /\ tx \in {NoTx, TransactionRequest(quote.route.steps[1].id)}
  /\ quote' = Finalize(
       [quote EXCEPT !.stepAnswer = IF tx.present THEN "with" ELSE "without"],
       [quote.route.steps[1] EXCEPT !.transactionRequest = tx])
  /\ UNCHANGED notQuote

\* getBtcToEvmQuote resolves: the response is returned as it is
QuoteReturns(response) ==
  /\ quote.pc = "quote"
  /\ response.action.toChainId = quote.toChainId
  /\ quote' = [quote EXCEPT !.pc = "done", !.result = response]
  /\ UNCHANGED notQuote

\* lifiRequest throws: the rejection passes through to the caller
RequestFails(error) ==
  /\ quote.pc \in {"routes", "stepTransaction", "quote"}
  /\ quote' = [quote EXCEPT !.pc = "done", !.result = error]
  /\ UNCHANGED notQuote

\* ------------------------------------------------------------ decoder action
\* extractOpReturnMemo(script)
Decode ==
  /\ memo = NotDecoded
  /\ push # NoPush
  /\ memo' = extractOpReturnMemo(script)
  /\ UNCHANGED <<store, isWalletConnected, authStatus, nextGen, call,
                 maxBuilderFee, extraAgents, now, flow, quote, push, script,
                 aside>>

\* ------------------------------------------------------------ logout actions
\* usePearLogout.logout up to the await of logoutPear or of disconnect
LogoutStart ==
  /\ flow.op = "none"
  /\ IF pearRefreshToken # NoToken
     THEN /\ flow' = Begin(flow, "logout", "logoutPear")
          /\ call' = [call EXCEPT ![1] = StartCall(FALSE)]
          /\ UNCHANGED store
     ELSE /\ resetPearAuth
          /\ flow' = Begin(flow, "logout", "disconnect")
          /\ UNCHANGED call
  /\ UNCHANGED <<chain, outsideFlow>>

\* how the request to /auth/logout ended
LogoutAnswer(outcome) ==
  IF outcome = Ok THEN "logout accepted"
  ELSE IF outcome = NetworkError THEN "logout unreachable"
  ELSE "logout rejected"

\* faulty variant: the store is reset only when the request succeeded, and a
\* failure reaches the caller
LogoutPearReturns_noFinally ==
  /\ flow.op = "logout" /\ flow.pc = "logoutPear" /\ Returned
  /\ IF call[1].outcome = Ok
     THEN /\ resetPearAuth
          /\ flow' = [flow EXCEPT !.pc = "disconnect",
                                  !.result = LogoutAnswer(call[1].outcome)]
     ELSE /\ UNCHANGED store
          /\ flow' = [flow EXCEPT !.pc = "caught",
                                  !.result = LogoutAnswer(call[1].outcome)]
  /\ call' = [call EXCEPT ![1] = IdleCall]
  /\ UNCHANGED <<chain, outsideFlow>>

\* logoutPear after pearApiRequest settles: the catch and finally blocks, and
\* its return to logout, which awaits disconnect
LogoutPearReturns ==
  /\ flow.op = "logout" /\ flow.pc = "logoutPear" /\ Returned
  /\ resetPearAuth
  /\ flow' = [flow EXCEPT !.pc = "disconnect",
                          !.result = LogoutAnswer(call[1].outcome)]
  /\ call' = [call EXCEPT ![1] = IdleCall]
  /\ UNCHANGED <<chain, outsideFlow>>

\* disconnect settles: logout returns, or its catch block resets the store
\* and awaits disconnect again
DisconnectReturns(ok) ==
  /\ flow.op = "logout" /\ flow.pc \in {"disconnect", "caught"}
  /\ IF ok /\ flow.pc = "disconnect"
     THEN /\ isWalletConnected' = FALSE
          /\ flow' = Finish(flow, "success")
          /\ UNCHANGED store
     ELSE /\ resetPearAuth
          /\ flow' = [flow EXCEPT !.pc = "disconnectAgain"]
          /\ UNCHANGED isWalletConnected
  /\ UNCHANGED <<call, chain, authStatus, nextGen, quote, push, script, memo,
                 aside>>

\* the disconnect of the catch block settles
DisconnectAgainReturns(ok) ==
  /\ flow.op = "logout" /\ flow.pc = "disconnectAgain"
  /\ isWalletConnected' = (IF ok THEN FALSE ELSE isWalletConnected)
  /\ flow' = Finish(flow, "Logout failed")
  /\ UNCHANGED <<store, call, chain, authStatus, nextGen, quote, push, script,
                 memo, aside>>

\* ------------------------------------------------- builder approval actions
notApproval ==
  <<pearAccessToken, pearRefreshToken, agentWalletApproved, isWalletConnected,
    authStatus, nextGen, call, extraAgents, now, flow, quote, push, script,
    memo, psbt, agentCheck>>

\* faulty variant: the call does not look at the in-progress flag
ApproveBuilder_noGuard(c, address, chainId, walletClient) ==
  /\ approval.calls[c].pc = "idle"
  /\ LET a == [approval EXCEPT
                 !.calls[c].duringAnother = InFlight(approval) # {},
                 !.calls[c].afterAnother =
                    \E d \in ApprovalCalls : approval.calls[d].setFlag
                                             /\ approval.calls[d].pc = "done"]
     IN
     approval' =
       IF ~address THEN Leave(a, c, "Wallet not connected")
       ELSE IF chainId # 1 /\ chainId # 42161
       THEN Leave(a, c, "Wrong network")
       ELSE IF ~walletClient THEN Leave(a, c, "Wallet client not ready")
       ELSE [a EXCEPT !.inProgress = TRUE, !.isApproving = TRUE,
                      !.calls[c].setFlag = TRUE, !.calls[c].pc = "fee",
                      !.calls[c].feeQueries = @ + 1]
  /\ UNCHANGED <<builderCodeApproved, maxBuilderFee, notApproval>>

\* approveBuilder up to the await of getMaxBuilderFee
ApproveBuilder(c, address, chainId, walletClient) ==
  /\ approval.calls[c].pc = "idle"
  /\ LET a == [approval EXCEPT
                 !.calls[c].duringAnother = InFlight(approval) # {},
                 !.calls[c].afterAnother =
                    \E d \in ApprovalCalls : approval.calls[d].setFlag
                                             /\ approval.calls[d].pc = "done"]
     IN
     approval' =
       IF approval.inProgress \/ approval.rendered
       THEN Leave(a, c, "Approval already in progress")
       ELSE IF ~address THEN Leave(a, c, "Wallet not connected")
       ELSE IF chainId # 1 /\ chainId # 42161
       THEN Leave(a, c, "Wrong network")
       ELSE IF ~walletClient THEN Leave(a, c, "Wallet client not ready")
       ELSE [a EXCEPT !.inProgress = TRUE, !.isApproving = TRUE,
                      !.calls[c].setFlag = TRUE, !.calls[c].pc = "fee",
                      !.calls[c].feeQueries = @ + 1]
  /\ UNCHANGED <<builderCodeApproved, maxBuilderFee, notApproval>>

\* faulty variant: the signature is requested whatever the fee is
GetMaxBuilderFeeReturns_alwaysSigns(c, ok) ==
  /\ approval.calls[c].pc = "fee"
  /\ LET a == [approval EXCEPT !.calls[c].seen =
                 IF ~ok THEN "failed"
                 ELSE IF maxBuilderFee > 0 THEN "positive" ELSE "zero"] IN
     IF ok
     THEN /\ approval' = [a EXCEPT !.calls[c].pc = "sign",
                                   !.calls[c].signatures = @ + 1]
          /\ UNCHANGED builderCodeApproved
     ELSE /\ approval' = Leave(a, c, "fetch failed")
          /\ UNCHANGED builderCodeApproved
  /\ UNCHANGED <<maxBuilderFee, notApproval>>

\* getMaxBuilderFee settles: return, the await of approveBuilderFee, or the
\* catch block
GetMaxBuilderFeeReturns(c, ok) ==
  /\ approval.calls[c].pc = "fee"
  /\ LET a == [approval EXCEPT !.calls[c].seen =
                 IF ~ok THEN "failed"
                 ELSE IF maxBuilderFee > 0 THEN "positive" ELSE "zero"] IN
     IF ok /\ maxBuilderFee > 0
     THEN /\ builderCodeApproved' = TRUE
          /\ approval' = Leave(a, c, "success")
     ELSE IF ok
     THEN /\ approval' = [a EXCEPT !.calls[c].pc = "sign",
                                   !.calls[c].signatures = @ + 1]
          /\ UNCHANGED builderCodeApproved
     ELSE /\ approval' = Leave(a, c, "fetch failed")
          /\ UNCHANGED builderCodeApproved
  /\ UNCHANGED <<maxBuilderFee, notApproval>>

\* approveBuilderFee settles: the exchange applied the approval, answered
\* with status "err", or the user rejected the signature
ApproveBuilderFeeReturns(c, outcome) ==
  /\ approval.calls[c].pc = "sign"
  /\ outcome \in {"ok", "err", "rejected"}
  /\ IF outcome = "ok"
     THEN /\ maxBuilderFee' = ApprovedFee
          /\ builderCodeApproved' = TRUE
          /\ approval' = Leave(approval, c, "success")
     ELSE /\ UNCHANGED <<builderCodeApproved, maxBuilderFee>>
          /\ approval' = Leave(approval, c,
               IF outcome = "err" THEN "Approval failed" ELSE "User rejected")
  /\ UNCHANGED notApproval

\* the component renders again: approveBuilder closes over the current
\* isApproving
Rerender ==
  /\ approval.rendered # approval.isApproving
  /\ approval' = [approval EXCEPT !.rendered = approval.isApproving]
  /\ UNCHANGED <<builderCodeApproved, maxBuilderFee, notApproval>>

\* -------------------------------------------------------- agent check action
\* isAgentApproved returns, getExtraAgents having answered with extraAgents
IsAgentApprovedReturns ==
  /\ agentCheck.pc = "idle"
  /\ agentCheck' =
       [agentCheck EXCEPT
          !.pc = "done",
          !.result = isAgentApproved(extraAgents, agentCheck.agentAddress, now)]
  /\ UNCHANGED <<store, isWalletConnected, authStatus, nextGen, call,
                 maxBuilderFee, extraAgents, now, flow, quote, push, script,
                 memo, psbt, approval>>

\* --------------------------------------------------------- PSBT decoder action
\* decodePsbt(psbtHex); the library is called only with decoded bytes
DecodePsbt ==
  /\ psbt.pc = "idle"
  /\ \E tx \in Parses :
       psbt' = [psbt EXCEPT
         !.pc = "done",
         !.library = IF HexDecodeThrows(psbt.psbtHex) THEN NotCalled ELSE tx,
         !.result = decodePsbt(psbt.psbtHex, tx)]
  /\ UNCHANGED <<store, isWalletConnected, authStatus, nextGen, call,
                 maxBuilderFee, extraAgents, now, flow, quote, push, script,
                 memo, approval, agentCheck>>

\* ------------------------------------------------------------ specifications
\* The store is persisted: construction rehydrates any earlier session.
InitStore ==
  /\ pearAccessToken \in {NoToken, 1}
  /\ pearRefreshToken \in {NoToken, 1}
  /\ builderCodeApproved \in BOOLEAN
  /\ agentWalletApproved \in BOOLEAN
  /\ isWalletConnected \in BOOLEAN
  /\ authStatus = "unrendered"
  /\ nextGen = 2
  /\ call = [c \in Calls |-> NewCall(FALSE, NoToken)]

\* nothing on chain, no approval operation in progress
InitFlowIdle ==
  /\ maxBuilderFee = 0
  /\ extraAgents = {}
  /\ now = 0
  /\ flow = FlowIdle

\* no quote requested
InitQuoteIdle == quote = QuoteIdle

\* no script decoded
InitMemoIdle == push = NoPush /\ script = <<>> /\ memo = NotDecoded

\* no PSBT decoded, no approval requested, no agent checked
InitAside ==
  /\ psbt = PsbtIdle
  /\ approval = ApprovalIdle
  /\ agentCheck = AgentCheckIdle

Init ==
  InitStore /\ InitFlowIdle /\ InitQuoteIdle /\ InitMemoIdle /\ InitAside

Settle(p, statuses) ==
  \/ Wake(p) \/ Wake(RefreshCallOf(p))
  \/ FetchFails(p) \/ FetchFails(RefreshCallOf(p))
  \/ RespondOk(p)
  \/ \E withAccess \in BOOLEAN : RespondRefreshOk(p, withAccess)
  \/ \E status \in statuses :
       RespondError(p, status) \/ RespondError(RefreshCallOf(p), status)
  \/ Respond401(p) \/ Respond401(RefreshCallOf(p))
  \/ RefreshReturns(p)
  \/ \E status \in {0, 200, 401} \cup statuses : RetryResponds(p, status)

\* one request at a time
Next ==
  \/ \E requireAuth \in BOOLEAN : Call(1, requireAuth)
  \/ Settle(1, ErrorStatuses)
  \/ Render

Spec == Init /\ [][Next]_vars

\* two requests of the application in flight together
NextConc ==
  \E p \in Requests :
    \/ Call(p, TRUE)
    \/ Settle(p, {500})

\* both requests start from a session with both approvals granted
InitConc ==
  /\ Init
  /\ builderCodeApproved /\ agentWalletApproved /\ isWalletConnected

SpecConc == InitConc /\ [][NextConc]_vars

\* every fetch settles and every timer fires
LiveSpec == Spec /\ WF_vars(Settle(1, ErrorStatuses))

\* the statuses an endpoint of the approval flow answers with besides 200/401
FlowStatuses == {404}

\* the session, the chain and the page at load
InitFlow ==
  /\ InitStore
  /\ maxBuilderFee \in {0, ApprovedFee}
  /\ extraAgents \in
       {{}, Approve({}, PearAgentAddress)}
  /\ now = 0
  /\ flow = FlowIdle
  /\ InitQuoteIdle /\ InitMemoIdle /\ InitAside

\* one approval-flow operation at a time, against a chain that others change
NextFlow ==
  \/ PageLoad
  \/ CheckStart
  \/ \E ok \in BOOLEAN : CheckFeeReturns(ok)
  \/ \E a \in {NoAddress, PearAgentAddress} : CheckWalletReturns(a)
  \/ \E ok \in BOOLEAN : CheckAgentReturns(ok)
  \/ LoginStart
  \/ LoginMessageReturns
  \/ \E signed \in BOOLEAN : LoginSigned(signed)
  \/ LoginAuthReturns
  \/ \E chainId \in ChainIds, walletClient \in BOOLEAN :
       BuilderStart(chainId, walletClient)
  \/ \E ok \in BOOLEAN : BuilderFeeReturns(ok)
  \/ \E outcome \in {"ok", "err", "rejected"} : BuilderSigned(outcome)
  \/ \E chainId \in ChainIds : AgentStart(chainId)
  \/ \E a \in {NoAddress, PearAgentAddress} : AgentWalletReturns(a)
  \/ \E ok \in BOOLEAN : AgentApprovedReturns(ok)
  \/ \E a \in {NoAddress, PearAgentAddress} : AgentCreateReturns(a)
  \/ \E signed \in BOOLEAN : AgentSigned(signed)
  \/ \E outcome \in {"applied", "notApplied", "httpError"} :
       AgentExchangeReturns(outcome)
  \/ Settle(1, FlowStatuses)
  \/ OutOfBandBuilderApproval
  \/ OutOfBandAgentApproval
  \/ Tick

SpecFlow == InitFlow /\ [][NextFlow]_vars

\* no session: lifi.ts reads nothing of the store
InitNoSession ==
  /\ InitStore
  /\ pearAccessToken = NoToken /\ pearRefreshToken = NoToken
  /\ ~builderCodeApproved /\ ~agentWalletApproved /\ ~isWalletConnected

\* one call of getBtcToEvmQuoteSmart against any answers of the server
InitQuote ==
  InitNoSession /\ InitFlowIdle /\ InitQuoteIdle /\ InitMemoIdle /\ InitAside

NextQuote ==
  \/ \E toChainId \in ToChainIds : GetQuote(toChainId)
  \/ \E response \in RoutesResponses : RoutesReturns(response)
  \/ \E tx \in {NoTx, TransactionRequest(1)} : StepTransactionReturns(tx)
  \/ \E response \in QuoteResponses : QuoteReturns(response)
  \/ \E error \in RequestFailures : RequestFails(error)

SpecQuote == InitQuote /\ [][NextQuote]_vars

\* extractOpReturnMemo applied to one script of Pushes
InitMemo ==
  /\ InitNoSession /\ InitFlowIdle /\ InitQuoteIdle /\ InitAside
  /\ push \in Pushes
  /\ script = ScriptOf(push)
  /\ memo = NotDecoded

NextMemo == Decode

SpecMemo == InitMemo /\ [][NextMemo]_vars

\* decodePsbt applied to one string, the library answering as it may
InitPsbt ==
  /\ InitNoSession /\ InitFlowIdle /\ InitQuoteIdle /\ InitMemoIdle
  /\ \E psbtHex \in PsbtHexes : psbt = [PsbtIdle EXCEPT !.psbtHex = psbtHex]
  /\ approval = ApprovalIdle
  /\ agentCheck = AgentCheckIdle

NextPsbt == DecodePsbt

SpecPsbt == InitPsbt /\ [][NextPsbt]_vars

\* the approveBuilder calls of one hook instance, with the fee on chain
\* approved or not
InitApprove ==
  /\ InitNoSession /\ InitQuoteIdle /\ InitMemoIdle /\ InitAside
  /\ maxBuilderFee \in {0, ApprovedFee}
  /\ extraAgents = {}
  /\ now = 0
  /\ flow = FlowIdle

NextApprove ==
  \/ \E c \in ApprovalCalls, address \in BOOLEAN, chainId \in ChainIds,
        walletClient \in BOOLEAN :
       ApproveBuilder(c, address, chainId, walletClient)
  \/ \E c \in ApprovalCalls, ok \in BOOLEAN : GetMaxBuilderFeeReturns(c, ok)
  \/ \E c \in ApprovalCalls, outcome \in {"ok", "err", "rejected"} :
       ApproveBuilderFeeReturns(c, outcome)
  \/ Rerender
  \/ OutOfBandBuilderApproval

SpecApprove == InitApprove /\ [][NextApprove]_vars

\* logout from any stored session, the logout endpoint answering as it may
InitLogout == Init

NextLogout ==
  \/ LogoutStart
  \/ Wake(1)
  \/ FetchFails(1)
  \/ RespondOk(1)
  \/ \E status \in ErrorStatuses : RespondError(1, status)
  \/ Respond401(1)
  \/ LogoutPearReturns
  \/ \E ok \in BOOLEAN : DisconnectReturns(ok)
  \/ \E ok \in BOOLEAN : DisconnectAgainReturns(ok)

SpecLogout == InitLogout /\ [][NextLogout]_vars

\* isAgentApproved applied to one list of agents, one address and one instant
InitAgents ==
  /\ InitNoSession /\ InitQuoteIdle /\ InitMemoIdle
  /\ maxBuilderFee = 0
  /\ extraAgents \in AgentSetsOf(MaxAgents)
  /\ now \in 0..MaxNow
  /\ flow = FlowIdle
  /\ psbt = PsbtIdle
  /\ approval = ApprovalIdle
  /\ \E agentAddress \in AgentAddresses :
       agentCheck = [AgentCheckIdle EXCEPT !.agentAddress = agentAddress]

NextAgents == IsAgentApprovedReturns

SpecAgents == InitAgents /\ [][NextAgents]_vars

\* ------------------------------------------------------------------- claims
Prefix(s, t) == Len(s) <= Len(t) /\ s = SubSeq(t, 1, Len(s))

SessionCleared == pearAccessToken = NoToken /\ pearRefreshToken = NoToken

\* the first response of request p was a 401 while a refresh token was stored
First401WithRefreshToken(p) ==
  /\ call[p].requireAuth
  /\ call[p].firstStatus = 401
  /\ call[p].expiredBy # "noRefreshToken"

\* C1: a requireAuth request whose first response is 401 while a refresh
\* token is stored invokes refreshPearToken exactly once, with the stored
\* refresh token and without auth; when the refresh stores a new access token
\* the request is re-sent exactly once with the access token the store holds,
\* and an OK response to the re-sent request is returned to the caller.
C1_RefreshOnceThenResendOnce ==
  \A p \in Requests :
    LET r == call[p]
        n == call[RefreshCallOf(p)] IN
    First401WithRefreshToken(p) =>
      /\ r.refreshes = 1
      /\ r.pc = "awaitRefresh" =>
            /\ n.pc # "idle"
            /\ n.arg = pearRefreshToken /\ n.arg # NoToken
            /\ ~n.requireAuth /\ n.sent = NoToken
      /\ r.resends = r.refreshed /\ r.resends <= 1
      /\ r.pc = "retryFetch" =>
            r.resends = 1 /\ r.sent = pearAccessToken /\ r.sent # NoToken
      /\ r.resendStatus = 200 =>
            r.pc = "done" /\ r.outcome = Ok /\ r.fetches = 2 /\ r.delays = <<>>

C1_Witness ==
  /\ First401WithRefreshToken(1)
  /\ call[1].pc = "done" /\ call[1].outcome = Ok
  /\ call[1].resends = 1 /\ call[1].sent = 2 /\ pearAccessToken = 2

\* C2 (as claimed): after a 401 whose refresh failed, or with no refresh token
\* stored, the session is cleared and the caller receives SessionExpired.
C2_SessionExpiredDelivered ==
  \A p \in Requests :
    (call[p].pc = "done" /\ call[p].expiredBy \in {"noRefreshToken", "refreshFailed"})
      => (call[p].outcome = SessionExpired /\ SessionCleared)

\* C3 (as claimed): 401, successful refresh, 401 again on the re-sent request:
\* the caller receives SessionExpired, the session is cleared and there was
\* no second refresh.
C3_Second401SessionExpired ==
  \A p \in Requests :
    (call[p].pc = "done" /\ call[p].expiredBy = "resendFailed"
       /\ call[p].resendStatus = 401)
      => /\ call[p].outcome = SessionExpired
         /\ SessionCleared
         /\ call[p].refreshes = 1

\* C4 (as claimed): a requireAuth call made while the store holds no access
\* token has failed with the authentication-required error by its first
\* suspension point: no fetch, no backoff wait, no further attempt.
C4_NoTokenFailsImmediately ==
  \A p \in Requests :
    call[p].noTokenAtCall =>
      /\ call[p].pc = "done" /\ call[p].outcome = AuthRequired
      /\ call[p].fetches = 0 /\ call[p].attempt = 0 /\ call[p].delays = <<>>

\* C5: a call makes at most 3 attempts; it waits 1000 ms before the second and
\* 2000 ms before the third and never after the last; a rejected fetch is
\* thrown only by the third attempt, and what is thrown is the last error; an
\* OK response ends the call, and a finished request does nothing more.
C5_BoundedBackoff ==
  /\ [](\A c \in Calls :
         LET r == call[c] IN
         /\ r.attempt < 3
         /\ Prefix(r.delays, <<1000, 2000>>)
         /\ Len(r.delays) = IF r.pc = "sleep" THEN r.attempt + 1 ELSE r.attempt
         /\ r.fetches <= r.attempt + 1 + r.resends
         /\ (r.pc = "done" /\ r.outcome = NetworkError) =>
               (r.attempt = 2 /\ r.delays = <<1000, 2000>>)
         /\ (r.pc = "done" /\ r.outcome # Ok) => r.outcome = r.lastError
         /\ r.outcome = Ok => r.pc = "done")
  /\ [][\A p \in Requests : call[p].pc = "done" => call'[p] = call[p]]_vars

C5_Witness ==
  /\ call[1].pc = "done" /\ call[1].outcome = NetworkError
  /\ call[1].fetches = 3 /\ call[1].resends = 0
  /\ call[1].delays = <<1000, 2000>>

\* C6: a response with a status that is neither OK nor 401 ends the call at
\* once with a PearApiException of that status: no further fetch, no backoff
\* wait, no change of the store; when it is the first response the call made
\* exactly one fetch.
C6_ErrorStatusNotRetried ==
  /\ [](\A c \in Calls :
         LET r == call[c] IN
         r.firstStatus \in ErrorStatuses =>
           /\ r.pc = "done"
           /\ r.outcome.name = "PearApiException"
           /\ r.outcome.statusCode = r.firstStatus
           /\ r.fetches = 1 /\ r.attempt = 0 /\ r.delays = <<>>)
  /\ [][\A c \in Calls : \A status \in ErrorStatuses :
         RespondError(c, status) =>
           /\ call'[c].pc = "done"
           /\ call'[c].outcome.name = "PearApiException"
           /\ call'[c].outcome.statusCode = status
           /\ call'[c].fetches = call[c].fetches
           /\ call'[c].delays = call[c].delays
           /\ store' = store]_vars

C6_Witness ==
  /\ call[1].pc = "done" /\ call[1].firstStatus = 429
  /\ call[1].outcome.statusCode = 429 /\ call[1].fetches = 1

\* C7 (as claimed): at most one refresh is in flight at any time and the
\* refresh endpoint is called once for two requests that both received 401.
C7_SingleRefreshInFlight ==
  Cardinality({p \in Requests : call[p].pc = "awaitRefresh"}) <= 1

\* C8: every call terminates: it makes at most 3 attempts, an attempt starts
\* at most one refresh and at most one re-sent request, and a call that has
\* started reaches its end whatever the responses are.
C8_Terminates ==
  /\ [](\A c \in Calls : call[c].attempt < 3)
  /\ [][\A p \in Requests :
         /\ call'[p].refreshes > call[p].refreshes =>
               (call[p].pc = "fetch" /\ call'[p].refreshes = call[p].refreshes + 1)
         /\ call'[p].resends > call[p].resends =>
               (call[p].pc = "awaitRefresh" /\ call'[p].resends = call[p].resends + 1)
         /\ call[p].pc \in {"awaitRefresh", "retryFetch"} =>
               /\ call'[p].attempt = call[p].attempt
               /\ call'[p].pc \in {call[p].pc, "retryFetch", "sleep", "done"}
               /\ call[p].pc = "retryFetch" => call'[p].pc # "awaitRefresh"]_vars
  /\ \A p \in {1} : (call[p].pc # "idle") ~> (call[p].pc = "done")

C8_Witness ==
  /\ call[1].pc = "done" /\ call[1].attempt = 2
  /\ call[1].refreshes = 1 /\ call[1].resends = 1
  /\ call[1].outcome = AuthRequired

TokenPresent == pearAccessToken # NoToken

\* C9: getAuthStatus is ready_to_trade exactly when the wallet is connected,
\* an access token is present and both approvals are true.
C9_ReadyIffAllFour ==
  \A connected \in BOOLEAN :
    (getAuthStatus(connected) = "ready_to_trade")
      <=> (connected /\ TokenPresent /\ builderCodeApproved /\ agentWalletApproved)

C9_Witness ==
  /\ authStatus = "ready_to_trade"
  /\ isWalletConnected /\ TokenPresent /\ builderCodeApproved /\ agentWalletApproved

\* C10: getAuthStatus is not_connected when the wallet is not connected,
\* whatever the token and the approvals; connected when the wallet is
\* connected and no token is present; authenticated when the wallet is
\* connected, a token is present and one of the approvals is false.
C10_OtherStates ==
  \A connected \in BOOLEAN :
    /\ ~connected => getAuthStatus(connected) = "not_connected"
    /\ (connected /\ ~TokenPresent) => getAuthStatus(connected) = "connected"
    /\ (connected /\ TokenPresent /\ ~(builderCodeApproved /\ agentWalletApproved))
         => getAuthStatus(connected) = "authenticated"

C10_Witness ==
  /\ authStatus = "authenticated"
  /\ isWalletConnected /\ TokenPresent /\ builderCodeApproved /\ ~agentWalletApproved

ReadyToTrade == getAuthStatus(isWalletConnected) = "ready_to_trade"

\* C11, as stated: an approval present on chain is recognized by every
\* computation of the approval state, whatever the cached flags hold: with the
\* wallet connected, a token stored, a builder-fee allowance on chain and an
\* unexpired approved-agent entry on chain, getAuthStatus is ready_to_trade.
C11_RederivedOnEveryComputation ==
  ( /\ isWalletConnected /\ pearAccessToken # NoToken
    /\ maxBuilderFee > 0
    /\ isAgentApproved(extraAgents, PearAgentAddress, now) )
  => ReadyToTrade

\* C11, amended: the computation of the approval state only reads the cached
\* flags; they are re-derived from the chain by checkStatusOnLoad: the step
\* that handles the fee query changes builderCodeApproved only to whether the
\* fee on chain is greater than 0, the step that handles the agent query
\* changes agentWalletApproved only to whether the agent the Pear API named
\* has an unexpired entry on chain, and a change of the chain or of the clock
\* alone changes nothing getAuthStatus reads.
C11_RederivedByStatusCheck ==
  [][ /\ (flow.op = "check" /\ flow.pc = "fee"
           /\ builderCodeApproved' # builderCodeApproved)
        => builderCodeApproved' = (maxBuilderFee > 0)
      /\ (flow.op = "check" /\ flow.pc = "agent"
           /\ agentWalletApproved' # agentWalletApproved)
        => agentWalletApproved' = isAgentApproved(extraAgents, flow.agent, now)
      /\ (flow' = flow /\ call' = call /\ chain' # chain)
        => (store' = store /\ ReadyToTrade' = ReadyToTrade) ]_vars

\* the status check on load has recognized approvals the cache did not hold
C11_Witness ==
  /\ flow.op = "none" /\ flow.checked
  /\ flow.from = "authenticated" /\ flow.result = "agent approved"
  /\ maxBuilderFee > 0
  /\ ReadyToTrade

MultiStep == quote.toChainId = HYPERLIQUID_CHAIN_ID
Returned404 ==
  quote.result = LifiApiError("No available routes for BTC to Hyperliquid", 404)
Returned500 ==
  quote.result = LifiApiError("Failed to get transaction request for route", 500)
ReturnedQuote == quote.pc = "done" /\ quote.result.kind = "quote"

\* the first route of the body of /advanced/routes has a first step
FirstStepReceived ==
  /\ MultiStep /\ quote.received /\ quote.hasRoutes
  /\ Len(quote.routes) > 0
  /\ Len(quote.routes[1].steps) > 0

\* C13: for destination 1337, when the body of /advanced/routes has no
\* routes (list missing or empty) the call fails with the LifiApiError
\* "No available routes" of status 404 and has made no stepTransaction
\* request and no /quote request.
C13_NoRoutes404 ==
  ( /\ MultiStep /\ quote.received
    /\ (~quote.hasRoutes \/ Len(quote.routes) = 0) )
  => /\ quote.pc = "done"
     /\ Returned404
     /\ quote.stepCalls = 0 /\ quote.quoteCalls = 0

\* the body had no routes member at all
C13_Witness ==
  MultiStep /\ quote.received /\ ~quote.hasRoutes /\ Returned404

\* C14: for a destination other than 1337 the call requests /quote exactly
\* once and never /advanced/routes or /advanced/stepTransaction; for 1337 it
\* never requests /quote; a finished call has returned one quote or thrown one
\* error and an unfinished one has returned nothing.
C14_OnePath ==
  /\ (quote.pc # "idle" /\ ~MultiStep) =>
        /\ quote.quoteCalls = 1
        /\ quote.routesCalls = 0 /\ quote.stepCalls = 0
  /\ (quote.pc # "idle" /\ MultiStep) =>
        /\ quote.quoteCalls = 0
        /\ quote.routesCalls = 1
  /\ (quote.pc = "done") = (quote.result.kind \in {"quote", "error"})
  /\ (quote.pc # "done") = (quote.result = NoResult)

\* a quote of the single-hop path has been returned
C14_Witness == ReturnedQuote /\ ~MultiStep /\ quote.quoteCalls = 1

RECURSIVE DurationFrom(_, _)
DurationFrom(steps, i) ==
  IF i > Len(steps) THEN 0
  ELSE (IF steps[i].estimate.executionDuration = NoDuration THEN 0
        ELSE steps[i].estimate.executionDuration)
       + DurationFrom(steps, i + 1)

\* C16: the quote of the multi-step path has tool, toolDetails and action
\* of the first step of the first route; toAmount, toAmountMin, toAmountUSD,
\* destination token and destination chain of the route; and as
\* executionDuration the sum over all steps, a missing duration counting 0.
C16_Synthesized ==
  (ReturnedQuote /\ MultiStep) =>
    LET route == quote.routes[1]
        first == route.steps[1]
        result == quote.result IN
    /\ result.tool = first.tool
    /\ result.toolDetails = first.toolDetails
    /\ result.action.fromToken = first.action.fromToken
    /\ result.action.toToken = route.toToken
    /\ result.action.toChainId = route.toChainId
    /\ result.estimate.toAmount = route.toAmount
    /\ result.estimate.toAmountMin = route.toAmountMin
    /\ result.estimate.toAmountUSD = route.toAmountUSD
    /\ result.estimate.fromAmount = first.estimate.fromAmount
    /\ result.estimate.executionDuration = DurationFrom(route.steps, 1)

\* two steps, the first without a duration, totals unlike the first step's
C16_Witness ==
  /\ ReturnedQuote /\ MultiStep
  /\ Len(quote.routes) = 2
  /\ Len(quote.routes[1].steps) = 2
  /\ quote.routes[1].steps[1].estimate.executionDuration = NoDuration
  /\ quote.result.estimate.executionDuration = 30
  /\ quote.routes[1].steps[1].estimate.toAmount # quote.routes[1].toAmount
  /\ quote.routes[1].steps[1].action.toChainId # quote.result.action.toChainId

\* C17: on the multi-step path /advanced/stepTransaction is requested once
\* when the first step of the first route has no transactionRequest and never
\* otherwise; when the step it returns has none either the call fails with
\* the LifiApiError of status 500; a returned quote carries the
\* transactionRequest of the first step.
C17_StepTransactionOnce ==
  /\ quote.stepCalls \in {0, 1}
  /\ FirstStepReceived =>
       LET first == quote.routes[1].steps[1] IN
       /\ (quote.stepCalls = 1) = ~first.transactionRequest.present
       /\ quote.stepAnswer = "without" => (quote.pc = "done" /\ Returned500)
       /\ ReturnedQuote =>
            quote.result.transactionRequest = TransactionRequest(first.id)
  /\ ~FirstStepReceived => quote.stepCalls = 0

\* the round trip supplied the transactionRequest; a later step had its own
C17_Witness ==
  /\ ReturnedQuote /\ FirstStepReceived
  /\ quote.stepCalls = 1 /\ quote.stepAnswer = "with"
  /\ Len(quote.routes[1].steps) = 2
  /\ quote.routes[1].steps[2].transactionRequest.present

Decoded == memo # NotDecoded

\* the length a push declares, as far as it fits 24 bits, and the rest of it
DeclaredLow(p) ==
  p.length[1] + (IF Len(p.length) >= 2 THEN 256 * p.length[2] ELSE 0)
    + (IF Len(p.length) >= 3 THEN 65536 * p.length[3] ELSE 0)
DeclaredHigh(p) == IF Len(p.length) = 4 THEN p.length[4] ELSE 0

DeclaredExceeds(p) ==
  DeclaredHigh(p) > 0 \/ DeclaredLow(p) > Len(p.data)

\* the bytes the push declares as its payload, all that remain if too few
Payload(p) ==
  IF DeclaredExceeds(p) THEN p.data ELSE SubSeq(p.data, 1, DeclaredLow(p))

PrintableBytes == (32..126) \cup {9, 10, 13}
TextLike(data) ==
  /\ Len(data) > 0
  /\ 10 * Cardinality({i \in 1..Len(data) : data[i] \in PrintableBytes})
       > 7 * Len(data)

RECURSIVE Utf8Encode(_, _)
\* the UTF-8 bytes of the code points of text from position i on
Utf8Encode(text, i) ==
  IF i > Len(text) THEN <<>>
  ELSE
    LET high == {j \in i..Len(text) : text[j] >= 128} IN
    IF high = {} THEN SubSeq(text, i, Len(text))
    ELSE
      LET k == Min(high)
          c == text[k] IN
      SubSeq(text, i, k - 1) \o
        (IF c < 2048 THEN <<192 + (c \div 64), 128 + (c % 64)>>
         ELSE IF c < 65536
         THEN <<224 + (c \div 4096), 128 + ((c \div 64) % 64), 128 + (c % 64)>>
         ELSE <<240 + (c \div 262144), 128 + ((c \div 4096) % 64),
                128 + ((c \div 64) % 64), 128 + (c % 64)>>)
        \o Utf8Encode(text, k + 1)

\* the memo is "0x", the hex of data and at most a tracking suffix
HexOf(data) ==
  LET h == Str0x \o Hex(data) IN
  /\ memo.kind = "string"
  /\ \/ memo.value = h
     \/ /\ Len(memo.value) > Len(h) + Len(StrTracking)
        /\ SubSeq(memo.value, 1, Len(h)) = h
        /\ SubSeq(memo.value, Len(h) + 1, Len(h) + Len(StrTracking))
             = StrTracking

\* the memo gives back the bytes of data, as text or as hex
Recovers(data) ==
  /\ memo.kind = "string"
  /\ Utf8Encode(memo.value, 1) = data \/ HexOf(data)

C19_OverlongTakesRemaining ==
  (Decoded /\ push.class \in Classes /\ DeclaredExceeds(push))
  => memo = Represent(push.data)

\* C20: the memo is the payload decoded as UTF-8 text exactly when the
\* payload is not empty and more than 70% of its bytes are printable ASCII,
\* tab, LF or CR; otherwise, a ratio of exactly 70% included, it is "0x"
\* followed by the hex of the payload. (PUSHDATA4 lengths from 2^31 on, for
\* which the payload is not what the push declares, are left to C19.)
C20_TextIffMostlyPrintable ==
  ( /\ Decoded /\ push.class \in Classes
    /\ DeclaredHigh(push) < 128 )
  => IF TextLike(Payload(push))
     THEN memo = String(TextDecode(Payload(push)))
     ELSE /\ HexOf(Payload(push))
          /\ memo.value # TextDecode(Payload(push))

\* 7 printable bytes of 10: hex
C20_Witness ==
  /\ Decoded /\ push.class = "direct"
  /\ Len(push.data) = 10 /\ push.length = <<10>>
  /\ Cardinality({i \in 1..10 : push.data[i] \in PrintableBytes}) = 7
  /\ HexOf(push.data)

\* the script starts with the byte 0x6a
StartsWithReturn == script # <<>> /\ Head(script) = 106

\* C21: isOpReturn is true exactly when the script is not empty and its first
\* byte is 0x6a; the memo of every script that does not start with 0x6a, the
\* empty script included, is null.
C21_NotReturnIsNull ==
  /\ isOpReturnScript(script) <=> StartsWithReturn
  /\ (Decoded /\ ~StartsWithReturn) => memo = Null

\* a push of "ABC" behind the byte 0x69 gave null
C21_Witness ==
  /\ Decoded /\ script = <<105, 3, 65, 66, 67>>
  /\ ~isOpReturnScript(script)
  /\ memo = Null

\* the string is no hex or the library threw on its bytes
Unparsable ==
  HexDecodeThrows(psbt.psbtHex) \/ psbt.library.threw # "none"

\* C22: decodePsbt throws for no input string; when the string cannot be
\* parsed the result is the empty one: no outputs, null addresses and memo,
\* amounts 0 and an empty rawTxHex.
C22_NeverThrows ==
  psbt.pc = "done"
  => /\ psbt.result.kind = "returned"
     /\ Unparsable
        => /\ psbt.result.outputs = <<>>
           /\ psbt.result.depositAddress = NullAddress
           /\ psbt.result.refundAddress = NullAddress
           /\ psbt.result.memo = Null
           /\ psbt.result.depositAmount = 0
           /\ psbt.result.refundAmount = 0
           /\ psbt.result.rawTxHex = <<>>

\* "70736274f", a truncated string of odd length, gave the empty result
C22_Witness ==
  /\ psbt.pc = "done"
  /\ psbt.psbtHex = <<55, 48, 55, 51, 54, 50, 55, 52, 102>>
  /\ psbt.library = NotCalled
  /\ psbt.result = EmptyResult

\* the bytes of the script of output i of the transaction, from 0
ScriptAt(i) ==
  LET output == psbt.library.outputs[i + 1] IN
  IF output.script.present THEN output.script.bytes ELSE <<>>

IsReturnAt(i) == ScriptAt(i) # <<>> /\ Head(ScriptAt(i)) = 106

AmountAt(i) ==
  LET output == psbt.library.outputs[i + 1] IN
  IF output.amount.present THEN output.amount.value ELSE 0

\* C23: roles go by position. The deposit amount is the amount of output 0,
\* the memo is the decoding of output 1 when output 1 is an OP_RETURN script
\* and null otherwise, the refund amount is the amount of output 2 when there
\* is one, and outputs lists every output once, in order, with its index.
C23_RolesByPosition ==
  (psbt.pc = "done" /\ ~Unparsable)
  => LET n == Len(psbt.library.outputs)
         result == psbt.result IN
     /\ Len(result.outputs) = n
     /\ \A i \in 0..(n - 1) :
          /\ result.outputs[i + 1].index = i
          /\ result.outputs[i + 1].amount = AmountAt(i)
          /\ result.outputs[i + 1].isOpReturn = IsReturnAt(i)
          /\ result.outputs[i + 1].script = Hex(ScriptAt(i))
     /\ result.depositAmount = (IF n >= 1 THEN AmountAt(0) ELSE 0)
     /\ result.memo = (IF n >= 2 /\ IsReturnAt(1)
                       THEN extractOpReturnMemo(ScriptAt(1)) ELSE Null)
     /\ result.refundAmount = (IF n >= 3 THEN AmountAt(2) ELSE 0)

\* four outputs, output 1 pays to an address and outputs 2 and 3 are
\* OP_RETURN pushes: no memo, and the refund is the amount of output 2
C23_Witness ==
  /\ psbt.pc = "done" /\ ~Unparsable
  /\ Len(psbt.library.outputs) = 4
  /\ ~IsReturnAt(1) /\ IsReturnAt(2) /\ IsReturnAt(3)
  /\ AmountAt(0) = 0 /\ AmountAt(2) = 1
  /\ psbt.result.memo = Null
  /\ psbt.result.depositAmount = 0 /\ psbt.result.refundAmount = 1
  /\ Len(psbt.result.outputs) = 4

\* C24, as stated: pearApiRequest clears the stored session only when the
\* refresh fails or no refresh token is stored; when the refresh succeeded
\* and the re-sent request fails with a status other than 401 or on the
\* network, the new tokens stay stored and the error raised is that failure,
\* not SessionExpired.
C24_ResendFailureKeepsTokens ==
  [][\A p \in Requests :
       ( /\ call[p].pc = "retryFetch" /\ call'[p].pc # "retryFetch"
         /\ call'[p].resendStatus \in {0} \cup ErrorStatuses )
       => /\ pearAccessToken' = pearAccessToken
          /\ pearRefreshToken' = pearRefreshToken
          /\ call'[p].lastError # SessionExpired]_vars

\* C25, as stated: once the refresh made for one of two concurrent requests
\* that both received 401 has stored new tokens, no step of the other request
\* clears the stored access token or replaces it with an older one.
C25_OtherRequestKeepsNewTokens ==
  [][\A p, q \in Requests :
       ( /\ p # q
         /\ call[p].refreshed >= 1 /\ pearAccessToken >= 2
         /\ call[q].firstStatus = 401
         /\ call'[p] = call[p] )
       => pearAccessToken' >= pearAccessToken]_vars

\* C30, as stated: a request made with requireAuth = false that received a 401
\* response makes no refresh, leaves the store as it was, and ends with a
\* PearApiException of status 401.
C30_Plain401Delivered ==
  /\ [][\A p \in Requests :
          (call[p].pc # "idle" /\ ~call[p].requireAuth)
          => (store' = store /\ call'[p].refreshes = 0)]_vars
  /\ [](\A p \in Requests :
         ( /\ call[p].pc = "done" /\ ~call[p].requireAuth
           /\ call[p].firstStatus = 401 )
         => call[p].outcome = ResponseError(401))

\* C30, amended: a 401 response to a request made with requireAuth = false
\* starts no refresh and leaves the store as it was; it is retried with
\* backoff like a transient failure, and the caller receives the
\* PearApiException of status 401 when the response to the last of the 3
\* attempts is a 401.
C30_Plain401RetriedThenDelivered ==
  [][\A p \in Requests :
       (call[p].pc # "idle" /\ ~call[p].requireAuth)
       => /\ store' = store
          /\ call'[p].refreshes = 0
          /\ call'[RefreshCallOf(p)] = call[RefreshCallOf(p)]
          /\ ( /\ call[p].pc = "fetch" /\ call'[p].pc # "fetch"
               /\ call'[p].lastError = ResponseError(401)
               /\ call'[p].outcome # Ok )
             => IF call[p].attempt < MAX_RETRIES - 1
                THEN /\ call'[p].pc = "sleep"
                     /\ call'[p].delays =
                          Append(call[p].delays,
                                 RETRY_DELAY_BASE * 2^call[p].attempt)
                ELSE /\ call'[p].pc = "done"
                     /\ call'[p].outcome = ResponseError(401)]_vars

\* three attempts answered 401 with a session stored: the caller got the
\* 401, the session is still there
C30_Witness ==
  /\ call[1].pc = "done" /\ ~call[1].requireAuth
  /\ call[1].firstStatus = 401 /\ call[1].fetches = 3
  /\ call[1].outcome = ResponseError(401)
  /\ call[1].refreshes = 0
  /\ pearAccessToken = 1 /\ pearRefreshToken = 1

\* C26: a call of approveBuilder that passed the preconditions first queries
\* the max builder fee; when the query shows a fee above 0 it sets
\* builderCodeApproved and succeeds with no signature requested; a signature
\* is requested only after a query that showed 0; and builderCodeApproved
\* becomes true only as such a query returns or as an approval answered with
\* a status other than "err" returns.
C26_QueryBeforeSignature ==
  /\ [](\A c \in ApprovalCalls :
          LET r == approval.calls[c] IN
          /\ r.setFlag => r.feeQueries = 1
          /\ ~r.setFlag => (r.feeQueries = 0 /\ r.signatures = 0)
          /\ r.signatures <= 1
          /\ (r.signatures = 1) => r.seen = "zero"
          /\ (r.seen = "positive")
             => /\ r.pc = "done" /\ r.result = "success"
                /\ r.signatures = 0
                /\ builderCodeApproved)
  /\ [][(~builderCodeApproved /\ builderCodeApproved')
        => \E c \in ApprovalCalls :
             \/ /\ approval.calls[c].pc = "fee"
                /\ approval'.calls[c].seen = "positive"
                /\ maxBuilderFee > 0
             \/ /\ approval.calls[c].pc = "sign"
                /\ approval'.calls[c].result = "success"]_vars

\* the fee was approved on chain already: success, flag set, nothing signed
C26_Witness ==
  /\ approval.calls[1].pc = "done" /\ approval.calls[1].result = "success"
  /\ approval.calls[1].seen = "positive"
  /\ approval.calls[1].feeQueries = 1 /\ approval.calls[1].signatures = 0
  /\ builderCodeApproved

PreconditionFailures ==
  {"Wallet not connected", "Wrong network", "Wallet client not ready"}

\* C29: at most one call of an instance is in progress, and the flag is set
\* exactly while it is; a call made while another is in flight returns
\* "Approval already in progress" with no fee query, no signature request and
\* no change of the store; a call that fails a precondition leaves the flag
\* alone; every way out of a call in progress clears the flag; and a call made
\* with nothing in flight, through the approveBuilder of a render that
\* followed, is not refused as in progress.
C29_OneApprovalAtATime ==
  /\ [](/\ Cardinality(InFlight(approval)) <= 1
        /\ approval.inProgress = (InFlight(approval) # {}))
  /\ [][\A c \in ApprovalCalls :
          (approval.calls[c].pc = "idle" /\ approval'.calls[c].pc # "idle")
          => LET r == approval'.calls[c] IN
             /\ (InFlight(approval) # {})
                => /\ r.pc = "done"
                   /\ r.result = "Approval already in progress"
                   /\ r.feeQueries = 0 /\ r.signatures = 0
                   /\ store' = store /\ maxBuilderFee' = maxBuilderFee
                   /\ approval'.inProgress = approval.inProgress
                   /\ approval'.isApproving = approval.isApproving
             /\ (r.result \in PreconditionFailures)
                => /\ r.pc = "done" /\ ~r.setFlag
                   /\ approval'.inProgress = approval.inProgress
                   /\ approval'.isApproving = approval.isApproving
             /\ (r.result = "Approval already in progress")
                => (InFlight(approval) # {} \/ approval.rendered)
             /\ (InFlight(approval) = {} /\ ~approval.rendered)
                => r.result # "Approval already in progress"]_vars
  /\ [][\A c \in ApprovalCalls :
          (c \in InFlight(approval) /\ approval'.calls[c].pc = "done")
          => (~approval'.inProgress /\ ~approval'.isApproving)]_vars

\* the user rejected the signature of call 1; call 3, made while it was in
\* flight, was refused; call 2, made after it, went on to query the fee
C29_Witness ==
  /\ approval.calls[1].result = "User rejected"
  /\ approval.calls[3].duringAnother
  /\ approval.calls[3].result = "Approval already in progress"
  /\ approval.calls[2].afterAnother /\ ~approval.calls[2].duringAnother
  /\ approval.calls[2].pc = "fee"
  /\ approval.inProgress

\* letters compare as their capitals
Capital(c) == IF c >= 97 /\ c <= 122 THEN c - 32 ELSE c
SameIgnoringCase(a, b) ==
  Len(a) = Len(b) /\ \A i \in 1..Len(a) : Capital(a[i]) = Capital(b[i])

\* C27: isAgentApproved returns true exactly when the list holds an entry
\* whose address is the given one up to letter case and whose validUntil is
\* later than the current time; an entry that expires at or before the
\* current time does not count.
C27_ApprovedIffUnexpiredEntry ==
  (agentCheck.pc = "done")
  => (agentCheck.result
        <=> \E agent \in extraAgents :
              /\ SameIgnoringCase(agent.address, agentCheck.agentAddress)
              /\ agent.validUntil > now)

\* the only entry for "0xab" is "0xAB", expiring at the current instant: not
\* approved
C27_Witness ==
  /\ agentCheck.pc = "done" /\ ~agentCheck.result
  /\ agentCheck.agentAddress = <<48, 120, 97, 98>>
  /\ now = 1
  /\ extraAgents = {[address |-> <<48, 120, 65, 66>>, validUntil |-> 1]}

\* C28: when logoutPear completes it returns to its caller, never throws, and
\* leaves the store without tokens and with both approval flags false,
\* whether the logout request was accepted, rejected or never answered.
C28_LogoutClearsSession ==
  /\ [][(flow.pc = "logoutPear" /\ flow'.pc # "logoutPear")
        => /\ flow'.pc = "disconnect"
           /\ pearAccessToken' = NoToken /\ pearRefreshToken' = NoToken
           /\ ~builderCodeApproved' /\ ~agentWalletApproved']_vars
  /\ [](flow.op = "logout" /\ flow.pc # "logoutPear"
        => /\ flow.pc # "caught"
           /\ SessionCleared
           /\ ~builderCodeApproved /\ ~agentWalletApproved)

\* logout from ready_to_trade: the server rejected the request and the
\* session is gone all the same
C28_Witness ==
  /\ flow.op = "logout" /\ flow.pc = "disconnect"
  /\ flow.from = "ready_to_trade"
  /\ flow.result = "logout rejected"
  /\ SessionCleared
  /\ ~builderCodeApproved /\ ~agentWalletApproved

====
